---- MODULE Spec2Model ----
(***************************************************************************)
(* snipSmart: recovery of one embedded JSON value or HTML/XML element from *)
(* noisy text.  The module models                                          *)
(*   - the dispatcher and the strict wrapper      (src/src/index.js),      *)
(*   - the JSON engine the dispatcher imports     (src/src/snipJson.js),   *)
(*   - the JSON engine of src/unnamed/part_000    (suffix 0 below),        *)
(*   - the tag engine                             (src/src/snipByTag.js).  *)
(*                                                                         *)
(* A JavaScript string is a sequence of characters, each character a       *)
(* one-character TLA+ string; indices in the engines are 0-based as in the *)
(* source.  A literal message of the source is one piece of such a         *)
(* sequence.  A JavaScript value is a record tagged by its type.           *)
(***************************************************************************)
EXTENDS Integers, Sequences, FiniteSets, TLC

VARIABLES
    fn,            \* the exported function that was called
    arg,           \* its first argument (content), a JavaScript value
    opt,           \* its second argument (options), a JavaScript value
    prev,          \* the Result of the call before this one, if there was one
    pc,            \* control point of the running call
    content,       \* the engine's local string (after sanitizing, for JSON)
    i,             \* scan index of the running engine
    stack,         \* the scan stack of the running engine
    start,         \* JSON engines: start / startingBrace
    end,           \* JSON engines: end / jsonEnd
    snippetStart,  \* tag engine: index of the first "<", -1 before it
    caseSensitive, \* tag engine: the caseSensitive option
    result,        \* the engine's / dispatcher's Result record
    ret,           \* what the called function returned
    exc            \* the exception that escaped the call

vars == <<fn, arg, opt, prev, pc, content, i, stack, start, end, snippetStart,
          caseSensitive, result, ret, exc>>

----------------------------------------------------------------------------
(* Bounds of the model.                                                    *)

\* Most tokens an input of the JSON engines is made of.
MaxJsonTok == 4
\* Most tokens an input of the tag engine is made of.
MaxTagTok == 4
\* Most tokens a string handed to the dispatcher is made of.
MaxMixTok == 3

----------------------------------------------------------------------------
(* Numbers.  A JavaScript Number is an IEEE 754 double.  The double a      *)
(* decimal text stands for is computed exactly, on decimals of any length  *)
(* (sequences of digits, and of limbs of eight digits where the decimal is *)
(* doubled and halved).  A double is written as its shortest decimal, the  *)
(* one Number::toString prints: 0, an infinity, or digits * 10^exp with    *)
(* digits free of zeros at either end.                                     *)

Zeros(n) == [k \in 1..n |-> 0]

\* d without the zeros at its start, and without those at its end.
StripLeading(d) ==
    IF \A k \in 1..Len(d) : d[k] = 0 THEN <<>>
    ELSE SubSeq(d, CHOOSE k \in 1..Len(d) :
                      d[k] # 0 /\ \A j \in 1..(k - 1) : d[j] = 0, Len(d))

LastNonZero(d) ==
    CHOOSE k \in 1..Len(d) : d[k] # 0 /\ \A j \in (k + 1)..Len(d) : d[j] = 0

StripTrailing(d) ==
    IF \A k \in 1..Len(d) : d[k] = 0 THEN <<>>
    ELSE SubSeq(d, 1, LastNonZero(d))

\* f with by added at position j and fill in the places after it.
Carried(f, j, by, fill) ==
    [k \in 1..Len(f) |->
        IF k < j THEN f[k] ELSE IF k = j THEN f[k] + by ELSE fill]

\* f + 1 and f - 1 (f > 0), for digits below base.
Increment(f, base) ==
    IF \A k \in 1..Len(f) : f[k] = base - 1 THEN <<1>> \o Zeros(Len(f))
    ELSE Carried(f, CHOOSE k \in 1..Len(f) :
                        f[k] # base - 1 /\ \A h \in (k + 1)..Len(f) : f[h] = base - 1,
                 1, 0)

Decrement(f, base) == StripLeading(Carried(f, LastNonZero(f), -1, base - 1))

\* The first place where a and b differ.
FirstDifference(a, b) ==
    CHOOSE k \in 1..Len(a) :
        k <= Len(b) /\ a[k] # b[k] /\ \A j \in 1..(k - 1) : a[j] = b[j]

\* a against b, digit by digit from the left: -1, 0, 1.
Compare(a, b) ==
    IF \E k \in 1..Len(a) : k <= Len(b) /\ a[k] # b[k]
    THEN IF a[FirstDifference(a, b)] < b[FirstDifference(a, b)] THEN -1 ELSE 1
    ELSE IF Len(a) = Len(b) THEN 0
    ELSE IF Len(a) < Len(b) THEN -1 ELSE 1

\* a < b for natural numbers written without leading zeros.
Less(a, b) == Len(a) < Len(b) \/ (Len(a) = Len(b) /\ Compare(a, b) < 0)

\* A fraction against one half: -1, 0, 1.
HalfCmp(frac, base) ==
    IF frac = <<>> \/ 2 * frac[1] < base THEN -1
    ELSE IF 2 * frac[1] > base \/ Len(frac) > 1 THEN 1
    ELSE 0

\* Exact decimals in base 10^8: w the limbs (0..10^8-1), the last p of them
\* after the point; no zero limb before the integer part, none at the end
\* of the fraction.
Base == 100000000
Dec(w, p) == [w |-> w, p |-> p]

\* One zero limb less at either end, where that is a zero before the
\* integer part or at the end of the fraction.
WithoutLast(w, p) ==
    IF p > 0 /\ w[Len(w)] = 0 THEN Dec(SubSeq(w, 1, Len(w) - 1), p - 1)
    ELSE Dec(w, p)

Trimmed(w, p) == WithoutLast(IF Len(w) > p /\ w[1] = 0 THEN Tail(w) ELSE w, p)

\* 2 * x: a limb takes a carry of 1 when the limb below it is half the base
\* or more.
Doubled(a, n, p) ==
    Trimmed([k \in 1..n |->
                ((2 * a[k]) % Base)
                  + (IF k < n /\ 2 * a[k + 1] >= Base THEN 1 ELSE 0)],
            p)

Double(x) == Doubled(<<0>> \o x.w, Len(x.w) + 1, x.p)

\* x / 2: a limb takes half the base when the limb above it is odd.
Halved(a, n, p) ==
    Trimmed([k \in 1..n |->
                (a[k] \div 2)
                  + (IF k > 1 /\ a[k - 1] % 2 = 1 THEN Base \div 2 ELSE 0)],
            p)

Halve(x) == Halved(x.w \o <<0>>, Len(x.w) + 1, x.p + 1)

\* x * 2^k and x / 2^k
RECURSIVE DoubleBy(_, _)
DoubleBy(x, k) ==
    IF x.w = <<>> \/ k <= 0 THEN x
    ELSE IF k = 1 THEN Double(x)
    ELSE DoubleBy(DoubleBy(x, k \div 2), k - (k \div 2))

RECURSIVE HalveBy(_, _)
HalveBy(x, k) ==
    IF x.w = <<>> \/ k <= 0 THEN x
    ELSE IF k = 1 THEN Halve(x)
    ELSE HalveBy(HalveBy(x, k \div 2), k - (k \div 2))

\* x * 2^q
Scale(x, q) == IF q >= 0 THEN DoubleBy(x, q) ELSE HalveBy(x, 0 - q)

IntPart(x) == SubSeq(x.w, 1, Len(x.w) - x.p)
FracPart(x) == SubSeq(x.w, Len(x.w) - x.p + 1, Len(x.w))

Two52 == <<45035996, 27370496>>
Two53 == <<90071992, 54740992>>

\* The limbs of the digits d, whose number is a multiple of 8.
Limbs(d) ==
    [k \in 1..(Len(d) \div 8) |->
        ((((((d[8 * k - 7] * 10 + d[8 * k - 6]) * 10 + d[8 * k - 5]) * 10
              + d[8 * k - 4]) * 10 + d[8 * k - 3]) * 10 + d[8 * k - 2]) * 10
           + d[8 * k - 1]) * 10 + d[8 * k]]

\* The decimal with the digits body, the last 8 * p of them after the point.
Padded(body, p) == Dec(Limbs(Zeros((8 - (Len(body) % 8)) % 8) \o body), p)

\* d * 10^(-n) with pad zeros after it, n + pad a multiple of 8.
PaddedFraction(d, pad, n) ==
    Padded((IF Len(d) < n THEN Zeros(n - Len(d)) ELSE <<>>) \o d \o Zeros(pad),
           (n + pad) \div 8)

\* d * 10^e as an exact decimal, d digits without zeros at either end.
Exact(d, e) ==
    IF e >= 0 THEN Padded(d \o Zeros(e), 0)
    ELSE PaddedFraction(d, (8 - ((0 - e) % 8)) % 8, 0 - e)

\* The integer f, or f + 1, for a fraction that compares c with one half: the
\* nearest integer, the even one of two equally near.
RoundTo(f, c) ==
    IF c > 0 \/ (c = 0 /\ f # <<>> /\ f[Len(f)] % 2 = 1) THEN Increment(f, Base)
    ELSE f

RoundEven(x) == RoundTo(IntPart(x), HalfCmp(FracPart(x), Base))

\* A double: zero, infinite, or f * 2^q with f < 2^53 and q >= -1074, and
\* f >= 2^52 unless q = -1074.
ZeroDouble == [kind |-> "zero", f |-> <<>>, q |-> 0]
InfiniteDouble == [kind |-> "infinite", f |-> <<>>, q |-> 0]

\* The double f * 2^q; 2^53 * 2^q is 2^52 * 2^(q+1), and 2^1024 is Infinity.
Rounded(f, q) ==
    IF f = <<>> THEN ZeroDouble
    ELSE IF f = Two53
    THEN IF q + 1 > 971 THEN InfiniteDouble
         ELSE [kind |-> "finite", f |-> Two52, q |-> q + 1]
    ELSE IF q > 971 THEN InfiniteDouble
    ELSE [kind |-> "finite", f |-> f, q |-> q]

\* y = x * 2^(-q) exactly; y is halved while it is 2^53 or more, and doubled
\* while it is below 2^52 and q above -1074.
RECURSIVE Normal(_, _)
Normal(y, q) ==
    IF ~Less(IntPart(y), Two53) THEN Normal(Halve(y), q + 1)
    ELSE IF q > -1074 /\ Less(IntPart(y), Two52) THEN Normal(Double(y), q - 1)
    ELSE Rounded(RoundEven(y), q)

\* A power of two not above 10^(m-1) / 2^53 when positive, not below
\* 10^m / 2^53 when negative (3321928 / 10^6 < log2(10) < 3321929 / 10^6).
Shift(m) ==
    IF m >= 17 THEN (((m - 1) * 3321928) \div 1000000) - 53
    ELSE IF m >= 0 THEN ((m * 3321929) \div 1000000) + 1 - 53
    ELSE 0 - ((((0 - m) * 3321928) \div 1000000) + 53)

ScaledBy(d, e, q) == Normal(Scale(Exact(d, e), 0 - q), q)

\* The double nearest to d * 10^e, d digits without zeros at either end:
\* between 10^(m-1) and 10^m for m = Len(d) + e.
ToDouble(d, e) ==
    IF d = <<>> \/ Len(d) + e < -323 THEN ZeroDouble
    ELSE IF Len(d) + e > 309 THEN InfiniteDouble
    ELSE ScaledBy(d, e, IF Shift(Len(d) + e) < -1074 THEN -1074
                        ELSE Shift(Len(d) + e))

PowersOfTen == <<10000000, 1000000, 100000, 10000, 1000, 100, 10, 1>>
\* The digits of limbs.
Digits8(w) ==
    [k \in 1..(8 * Len(w)) |->
        (w[((k - 1) \div 8) + 1] \div PowersOfTen[((k - 1) % 8) + 1]) % 10]

\* A positive decimal as 0.s * 10^n, s digits without zeros at either end.
Sig(s, n) == [s |-> s, n |-> n]
SigFrom(lead, p) == Sig(StripTrailing(lead), Len(lead) - 8 * p)
SigOf(x) == SigFrom(StripLeading(Digits8(x.w)), x.p)

CmpSig(a, b) ==
    IF a.n # b.n THEN (IF a.n < b.n THEN -1 ELSE 1) ELSE Compare(a.s, b.s)

\* The first k digits of v, and that plus one unit of the last place.
Floor(v, k) == Sig(StripTrailing(SubSeq(v.s, 1, k)), v.n)
CeilFrom(c, k, n) ==
    IF Len(c) > k THEN Sig(<<1>>, n + 1) ELSE Sig(StripTrailing(c), n)
Ceil(v, k) == CeilFrom(Increment(SubSeq(v.s, 1, k), 10), k, v.n)

\* The decimals that are read as the double b = f * 2^q lie between the
\* middles to its neighbours; the middles themselves are read as the
\* neighbour with the even f.  Below a power of two the lower neighbour is
\* half as far: the middle is (2^s * f - 1) * 2^(q-s) with s = 2 there and
\* s = 1 elsewhere.
LowerBy(b, s) ==
    SigOf(Scale(Dec(Decrement(DoubleBy(Dec(b.f, 0), s).w, Base), 0), b.q - s))
Lower(b) == LowerBy(b, IF b.f = Two52 /\ b.q > -1074 THEN 2 ELSE 1)
Upper(b) == SigOf(Scale(Dec(Increment(Double(Dec(b.f, 0)).w, Base), 0), b.q - 1))

\* below and above compare the lower bound with c and c with the upper one.
Inside(below, above, even) ==
    /\ below < 0 \/ (even /\ below = 0)
    /\ above < 0 \/ (even /\ above = 0)

Within(c, lo, hi, even) == Inside(CmpSig(lo, c), CmpSig(c, hi), even)

\* Whether a decimal of k digits lies within: the one below v or the one
\* above it.
Fits(v, lo, hi, even, k) ==
    \/ k >= Len(v.s)
    \/ Within(Floor(v, k), lo, hi, even)
    \/ Within(Ceil(v, k), lo, hi, even)

\* Of the decimals fl below v and ce above it, the one that is read as the
\* double; of both, the one nearest to v (c compares what v has beyond fl
\* with one half), the even one of two equally near.
NearestOf(fl, ce, lo, hi, even, c, flEven) ==
    IF ~Within(ce, lo, hi, even) THEN fl
    ELSE IF ~Within(fl, lo, hi, even) THEN ce
    ELSE IF c < 0 THEN fl
    ELSE IF c > 0 THEN ce
    ELSE IF flEven THEN fl ELSE ce

Nearest(v, lo, hi, even, k) ==
    NearestOf(Floor(v, k), Ceil(v, k), lo, hi, even,
              HalfCmp(SubSeq(v.s, k + 1, Len(v.s)), 10), v.s[k] % 2 = 0)

Least(S) == CHOOSE k \in S : \A j \in S : k <= j

\* Seventeen digits tell any double from its neighbours.
ShortestBetween(v, lo, hi, even) ==
    Nearest(v, lo, hi, even, Least({k \in 1..17 : Fits(v, lo, hi, even, k)}))

\* Number::toString, step 5: the fewest digits that are read as b.
Shortest(b) ==
    ShortestBetween(SigOf(Scale(Dec(b.f, 0), b.q)), Lower(b), Upper(b),
                    b.f[Len(b.f)] % 2 = 0)

Finite(c) == [kind |-> "finite", digits |-> c.s, exp |-> c.n - Len(c.s)]

\* The double b as its shortest decimal.
Printed(b) ==
    IF b.kind = "finite" THEN Finite(Shortest(b))
    ELSE [kind |-> b.kind, digits |-> <<>>, exp |-> 0]

\* The Number read from d * 10^e, d digits without zeros at either end.  A
\* decimal of at most 15 digits within the normal range is itself the
\* shortest decimal of the double nearest to it.
ParsedDigits(d, e) ==
    IF d = <<>> THEN [kind |-> "zero", digits |-> <<>>, exp |-> 0]
    ELSE IF Len(d) <= 15 /\ Len(d) + e \in -306..308
    THEN [kind |-> "finite", digits |-> d, exp |-> e]
    ELSE Printed(ToDouble(d, e))

ParsedLead(lead, e) ==
    ParsedDigits(StripTrailing(lead), e + (Len(lead) - Len(StripTrailing(lead))))

\* The Number read from the digits d * 10^e.
Parsed(d, e) == ParsedLead(StripLeading(d), e)

----------------------------------------------------------------------------
(* JavaScript values.                                                      *)

JsNull      == [t |-> "null"]
JsUndefined == [t |-> "undefined"]
JsTrue      == [t |-> "boolean", b |-> TRUE]
JsFalse     == [t |-> "boolean", b |-> FALSE]
Str(s)      == [t |-> "string", chars |-> s]
Arr(items)  == [t |-> "array", items |-> items]
Obj(es)     == [t |-> "object", entries |-> es]

\* A Number: of kind "zero", "infinite" or "finite", negative when neg; a
\* finite one is digits * 10^exp, the shortest decimal that is read as it.
\* The double nearest to the decimal d * 10^e, d digits:
NumberOf(neg, p) ==
    [t |-> "number", kind |-> p.kind, neg |-> neg,
     digits |-> p.digits, exp |-> p.exp]

ToNumber(neg, d, e) == NumberOf(neg, Parsed(d, e))

\* The digits of a natural number.
RECURSIVE NatDigits(_)
NatDigits(n) == IF n < 10 THEN <<n>> ELSE Append(NatDigits(n \div 10), n % 10)

\* The Number the literal m * 10^e stands for, m an integer.
Num(m, e) == ToNumber(m < 0, NatDigits(IF m < 0 THEN 0 - m ELSE m), e)

typeof(v) ==
    CASE v.t = "string"    -> "string"
      [] v.t = "undefined" -> "undefined"
      [] v.t = "number"    -> "number"
      [] v.t = "boolean"   -> "boolean"
      [] OTHER             -> "object"

\* ToBoolean: the falsy values are undefined, null, "", 0, -0 and false.
Truthy(v) ==
    CASE v.t = "string"    -> v.chars # <<>>
      [] v.t = "undefined" -> FALSE
      [] v.t = "null"      -> FALSE
      [] v.t = "number"    -> v.kind # "zero"
      [] v.t = "boolean"   -> v.b
      [] OTHER             -> TRUE

\* The backtick character (a backtick cannot be written in a TLA+ string).
Backtick == "BACKTICK"
\* What indexing a string out of range yields.
NoChar == "UNDEFINED"

Quotes == {"'", "\""}
\* A code unit that has no character of its own in this module is written
\* as the token \uXXXX, its four hexadecimal digits in lower case.
\* \s of a regular expression, and what trim() strips: WhiteSpace and
\* LineTerminator of the language.
WhiteSpace ==
    {" ", "\t", "\n", "\r", "\f", "\\u000b", "\\u00a0", "\\u1680",
     "\\u2000", "\\u2001", "\\u2002", "\\u2003", "\\u2004", "\\u2005",
     "\\u2006", "\\u2007", "\\u2008", "\\u2009", "\\u200a",
     "\\u2028", "\\u2029", "\\u202f", "\\u205f", "\\u3000", "\\ufeff"}
\* Where ^ and $ of a regular expression with the m flag match.
LineTerminators == {"\n", "\r", "\\u2028", "\\u2029"}

Min(a, b) == IF a <= b THEN a ELSE b
Max(a, b) == IF a >= b THEN a ELSE b

\* content[i]
At(s, k) == IF k >= 0 /\ k < Len(s) THEN s[k + 1] ELSE NoChar

\* String.prototype.slice(from, to)
slice(s, from, to) ==
    LET n == Len(s)
        a == IF from < 0 THEN Max(n + from, 0) ELSE Min(from, n)
        b == IF to < 0 THEN Max(n + to, 0) ELSE Min(to, n)
    IN  IF a >= b THEN <<>> ELSE SubSeq(s, a + 1, b)

\* String.prototype.slice(from)
sliceFrom(s, from) == slice(s, from, Len(s))

\* Whether pattern p occurs in s at 0-based index k.
OccursAt(s, p, k) ==
    /\ k >= 0
    /\ k + Len(p) <= Len(s)
    /\ \A j \in 1..Len(p) : s[k + j] = p[j]

\* String.prototype.indexOf(p)
indexOf(s, p) ==
    LET hits == {k \in 0..Len(s) : OccursAt(s, p, k)}
    IN  IF hits = {} THEN -1 ELSE CHOOSE k \in hits : \A h \in hits : k <= h

\* String.prototype.lastIndexOf(p)
lastIndexOf(s, p) ==
    LET hits == {k \in 0..Len(s) : OccursAt(s, p, k)}
    IN  IF hits = {} THEN -1 ELSE CHOOSE k \in hits : \A h \in hits : k >= h

\* String.prototype.trim()
RECURSIVE trimStart(_)
trimStart(s) ==
    IF s # <<>> /\ Head(s) \in WhiteSpace THEN trimStart(Tail(s)) ELSE s

RECURSIVE trimEnd(_)
trimEnd(s) ==
    IF s # <<>> /\ s[Len(s)] \in WhiteSpace
    THEN trimEnd(SubSeq(s, 1, Len(s) - 1))
    ELSE s

trim(s) == trimEnd(trimStart(s))

----------------------------------------------------------------------------
(* JSON.parse, the decoder both JSON engines call.  Positions are 1-based  *)
(* positions of the text; a parser returns [ok, pos, val] with pos the     *)
(* position after what it read.                                            *)

JsonWs == {" ", "\t", "\n", "\r"}
Digits == {"0", "1", "2", "3", "4", "5", "6", "7", "8", "9"}
HexDigits == Digits \cup {"a", "b", "c", "d", "e", "f", "A", "B", "C", "D", "E", "F"}
LowerHexDigits == Digits \cup {"a", "b", "c", "d", "e", "f"}
\* The 32 code units below U+0020, which a JSON string may not hold
\* unescaped.
ControlChars ==
    {"BACKSPACE", "\t", "\n", "\f", "\r"}
      \cup {"\\u00" \o a \o b : a \in {"0", "1"}, b \in LowerHexDigits}

DigitVal(c) ==
    CASE c = "0" -> 0 [] c = "1" -> 1 [] c = "2" -> 2 [] c = "3" -> 3
      [] c = "4" -> 4 [] c = "5" -> 5 [] c = "6" -> 6 [] c = "7" -> 7
      [] c = "8" -> 8 [] c = "9" -> 9

PFail == [ok |-> FALSE, pos |-> 0, val |-> JsNull]
POk(p, v) == [ok |-> TRUE, pos |-> p, val |-> v]

RECURSIVE SkipWs(_, _)
SkipWs(s, p) ==
    IF p <= Len(s) /\ s[p] \in JsonWs THEN SkipWs(s, p + 1) ELSE p

\* The position after the run of digits that starts at p.
DigitsEnd(s, p) ==
    CHOOSE q \in p..(Len(s) + 1) :
        /\ q > Len(s) \/ s[q] \notin Digits
        /\ \A j \in p..(q - 1) : s[j] \in Digits

\* The digits at positions a..b-1.
DigitsAt(s, a, b) == [k \in 1..(b - a) |-> DigitVal(s[a + k - 1])]

\* The value of at most nine digits.
RECURSIVE NatOf(_)
NatOf(d) ==
    IF d = <<>> THEN 0 ELSE NatOf(SubSeq(d, 1, Len(d) - 1)) * 10 + d[Len(d)]

\* The value of the exponent digits d.  An exponent of ten digits or more
\* is taken as 10^9: no text holds a mantissa long enough to bring either
\* into the range of the doubles.
ExpValue(d) ==
    IF Len(StripLeading(d)) > 9 THEN 1000000000 ELSE NatOf(StripLeading(d))

\* number ::= -? (0 | [1-9][0-9]*) (. [0-9]+)? ([eE] [+-]? [0-9]+)?
\* A literal that ends before position p stands for digits * 10^exp,
\* negated when neg.
NoLiteral == [ok |-> FALSE, pos |-> 0, neg |-> FALSE, digits |-> <<>>, exp |-> 0]
Literal(p, neg, d, e) ==
    [ok |-> TRUE, pos |-> p, neg |-> neg, digits |-> d, exp |-> e]

\* d are the digits of the mantissa, the last nFrac of them after the
\* point.  The exponent digits run from expFrom to expEnd.
NumberExp(s, neg, d, nFrac, expNeg, expFrom, expEnd) ==
    IF expEnd = expFrom THEN NoLiteral
    ELSE Literal(expEnd, neg, d,
                 (IF expNeg THEN 0 - ExpValue(DigitsAt(s, expFrom, expEnd))
                  ELSE ExpValue(DigitsAt(s, expFrom, expEnd))) - nFrac)

\* The mantissa is read and ends before position p.
NumberTail(s, neg, d, nFrac, p) ==
    IF p <= Len(s) /\ s[p] \in {"e", "E"}
    THEN IF p + 1 <= Len(s) /\ s[p + 1] \in {"+", "-"}
         THEN NumberExp(s, neg, d, nFrac, s[p + 1] = "-", p + 2, DigitsEnd(s, p + 2))
         ELSE NumberExp(s, neg, d, nFrac, FALSE, p + 1, DigitsEnd(s, p + 1))
    ELSE Literal(p, neg, d, 0 - nFrac)

\* The integer digits run from a to intEnd, the fraction digits from
\* intEnd + 1 to fracEnd.
NumberFrac(s, neg, a, intEnd, fracEnd) ==
    IF fracEnd = intEnd + 1 THEN NoLiteral
    ELSE NumberTail(s, neg,
                    DigitsAt(s, a, intEnd) \o DigitsAt(s, intEnd + 1, fracEnd),
                    fracEnd - (intEnd + 1), fracEnd)

\* The integer digits run from a to intEnd.
NumberInt(s, neg, a, intEnd) ==
    IF intEnd = a THEN NoLiteral
    ELSE IF intEnd <= Len(s) /\ s[intEnd] = "."
    THEN NumberFrac(s, neg, a, intEnd, DigitsEnd(s, intEnd + 1))
    ELSE NumberTail(s, neg, DigitsAt(s, a, intEnd), 0, intEnd)

NumberFrom(s, neg, a) ==
    NumberInt(s, neg, a, IF a <= Len(s) /\ s[a] = "0" THEN a + 1 ELSE DigitsEnd(s, a))

\* The Number a literal stands for.
NumberValue(n) ==
    IF n.ok THEN POk(n.pos, ToNumber(n.neg, n.digits, n.exp)) ELSE PFail

ParseNumber(s, p) ==
    NumberValue(NumberFrom(s, s[p] = "-", IF s[p] = "-" THEN p + 1 ELSE p))

\* What the escape \c stands for.
Unescape(c) ==
    CASE c = "\"" -> "\""
      [] c = "\\" -> "\\"
      [] c = "/"  -> "/"
      [] c = "n"  -> "\n"
      [] c = "t"  -> "\t"
      [] c = "r"  -> "\r"
      [] c = "f"  -> "\f"
      [] c = "b"  -> "BACKSPACE"

\* A hexadecimal digit in lower case.
LowerHex(c) ==
    CASE c = "A" -> "a" [] c = "B" -> "b" [] c = "C" -> "c"
      [] c = "D" -> "d" [] c = "E" -> "e" [] c = "F" -> "f" [] OTHER -> c

\* The characters U+0020 to U+007E, in the order of their code units.
Ascii ==
    <<" ", "!", "\"", "#", "$", "%", "&", "'", "(", ")", "*", "+", ",", "-", ".", "/",
      "0", "1", "2", "3", "4", "5", "6", "7", "8", "9", ":", ";", "<", "=", ">", "?",
      "@", "A", "B", "C", "D", "E", "F", "G", "H", "I", "J", "K", "L", "M", "N", "O",
      "P", "Q", "R", "S", "T", "U", "V", "W", "X", "Y", "Z", "[", "\\", "]", "^", "_",
      Backtick, "a", "b", "c", "d", "e", "f", "g", "h", "i", "j", "k", "l", "m", "n", "o",
      "p", "q", "r", "s", "t", "u", "v", "w", "x", "y", "z", "{", "|", "}", "~">>

HexDigitChars ==
    <<"0", "1", "2", "3", "4", "5", "6", "7", "8", "9", "a", "b", "c", "d", "e", "f">>

\* The four hexadecimal digits of a code unit below U+0100.
HexOf(n) == "00" \o HexDigitChars[(n \div 16) + 1] \o HexDigitChars[(n % 16) + 1]

\* The code unit the escape \uXXXX stands for, h its digits in lower case:
\* its character where it has one, its token otherwise.
CharOfHex(h) ==
    IF \E n \in 32..126 : HexOf(n) = h
    THEN Ascii[(CHOOSE n \in 32..126 : HexOf(n) = h) - 31]
    ELSE CASE h = "0008" -> "BACKSPACE"
           [] h = "0009" -> "\t"
           [] h = "000a" -> "\n"
           [] h = "000c" -> "\f"
           [] h = "000d" -> "\r"
           [] OTHER      -> "\\u" \o h

CodeUnit(a, b, c, d) ==
    CharOfHex(LowerHex(a) \o LowerHex(b) \o LowerHex(c) \o LowerHex(d))

\* The characters of a string literal from p (after the opening quote) on.
RECURSIVE ParseString(_, _, _)
ParseString(s, p, acc) ==
    IF p > Len(s) THEN PFail
    ELSE IF s[p] = "\"" THEN POk(p + 1, Str(acc))
    ELSE IF s[p] \in ControlChars THEN PFail
    ELSE IF s[p] # "\\" THEN ParseString(s, p + 1, Append(acc, s[p]))
    ELSE IF p + 1 > Len(s) THEN PFail
    ELSE IF s[p + 1] \in {"\"", "\\", "/", "n", "t", "r", "f", "b"}
         THEN ParseString(s, p + 2, Append(acc, Unescape(s[p + 1])))
    ELSE IF /\ s[p + 1] = "u"
            /\ p + 5 <= Len(s)
            /\ \A k \in 2..5 : s[p + k] \in HexDigits
         THEN ParseString(s, p + 6,
                  Append(acc, CodeUnit(s[p + 2], s[p + 3], s[p + 4], s[p + 5])))
    ELSE PFail

\* Whether the key k is an array index: the decimal text, without leading
\* zeros, of an integer from 0 to 2^32 - 2.
IsIndex(k) ==
    /\ k # <<>>
    /\ \A n \in 1..Len(k) : k[n] \in Digits
    /\ k[1] # "0" \/ Len(k) = 1
    /\ \/ Len(k) < 10
       \/ /\ Len(k) = 10
          /\ Compare(DigitsAt(k, 1, 11), <<4, 2, 9, 4, 9, 6, 7, 2, 9, 4>>) <= 0

\* Set key k of an object.  The keys of an object are listed with the array
\* indices first, in ascending order, and the other keys after them in the
\* order in which they were first set; a repeated key keeps its place and
\* takes the later value.
SetEntry(es, k, v) ==
    LET below == {n \in 1..Len(es) :
                     /\ IsIndex(es[n].key)
                     /\ Less(DigitsAt(es[n].key, 1, Len(es[n].key) + 1),
                             DigitsAt(k, 1, Len(k) + 1))}
    IN  IF \E n \in 1..Len(es) : es[n].key = k
        THEN [n \in 1..Len(es) |->
                 IF es[n].key = k THEN [key |-> k, value |-> v] ELSE es[n]]
        ELSE IF IsIndex(k)
        THEN SubSeq(es, 1, Cardinality(below))
               \o <<[key |-> k, value |-> v]>>
               \o SubSeq(es, Cardinality(below) + 1, Len(es))
        ELSE Append(es, [key |-> k, value |-> v])

RECURSIVE ParseValue(_, _)
RECURSIVE ParseElements(_, _, _)
RECURSIVE ParseMembers(_, _, _)

\* An element v was read; q is the position of what follows it.
AfterElement(s, acc, v, q) ==
    IF q > Len(s) THEN PFail
    ELSE IF s[q] = "," THEN ParseElements(s, q + 1, Append(acc, v.val))
    ELSE IF s[q] = "]" THEN POk(q + 1, Arr(Append(acc, v.val)))
    ELSE PFail

Element(s, acc, v) ==
    IF ~v.ok THEN PFail ELSE AfterElement(s, acc, v, SkipWs(s, v.pos))

\* elements ::= value (, value)* ]
ParseElements(s, p, acc) == Element(s, acc, ParseValue(s, p))

\* A member k : v was read; q is the position of what follows it.
AfterMember(s, acc, k, v, q) ==
    IF q > Len(s) THEN PFail
    ELSE IF s[q] = "," THEN ParseMembers(s, q + 1, SetEntry(acc, k.val.chars, v.val))
    ELSE IF s[q] = "}" THEN POk(q + 1, Obj(SetEntry(acc, k.val.chars, v.val)))
    ELSE PFail

MemberValue(s, acc, k, v) ==
    IF ~v.ok THEN PFail ELSE AfterMember(s, acc, k, v, SkipWs(s, v.pos))

\* The key k was read; q is the position of what follows it.
MemberColon(s, acc, k, q) ==
    IF q <= Len(s) /\ s[q] = ":"
    THEN MemberValue(s, acc, k, ParseValue(s, q + 1))
    ELSE PFail

MemberKey(s, acc, k) ==
    IF ~k.ok THEN PFail ELSE MemberColon(s, acc, k, SkipWs(s, k.pos))

Member(s, acc, q) ==
    IF q <= Len(s) /\ s[q] = "\""
    THEN MemberKey(s, acc, ParseString(s, q + 1, <<>>))
    ELSE PFail

\* members ::= string : value (, string : value)* }
ParseMembers(s, p, acc) == Member(s, acc, SkipWs(s, p))

\* q is the position after "{" and the white space that follows it.
ObjectFrom(s, q) ==
    IF q <= Len(s) /\ s[q] = "}" THEN POk(q + 1, Obj(<<>>))
    ELSE ParseMembers(s, q, <<>>)

\* q is the position after "[" and the white space that follows it.
ArrayFrom(s, q) ==
    IF q <= Len(s) /\ s[q] = "]" THEN POk(q + 1, Arr(<<>>))
    ELSE ParseElements(s, q, <<>>)

\* q is the position of the first character of the value.
ValueAt(s, q) ==
    IF q > Len(s) THEN PFail
    ELSE IF s[q] = "{" THEN ObjectFrom(s, SkipWs(s, q + 1))
    ELSE IF s[q] = "[" THEN ArrayFrom(s, SkipWs(s, q + 1))
    ELSE IF s[q] = "\"" THEN ParseString(s, q + 1, <<>>)
    ELSE IF s[q] \in Digits \cup {"-"} THEN ParseNumber(s, q)
    ELSE IF OccursAt(s, <<"t", "r", "u", "e">>, q - 1) THEN POk(q + 4, JsTrue)
    ELSE IF OccursAt(s, <<"f", "a", "l", "s", "e">>, q - 1) THEN POk(q + 5, JsFalse)
    ELSE IF OccursAt(s, <<"n", "u", "l", "l">>, q - 1) THEN POk(q + 4, JsNull)
    ELSE PFail

ParseValue(s, p) == ValueAt(s, SkipWs(s, p))

\* The message of the SyntaxError JSON.parse throws (its wording is the
\* JavaScript engine's).
SyntaxErrorMessage == <<"<SyntaxError message of JSON.parse>">>

\* v is the value read from the start of the text.
ParsedText(text, v) ==
    IF v.ok /\ SkipWs(text, v.pos) > Len(text)
    THEN [threw |-> FALSE, value |-> v.val, message |-> <<>>]
    ELSE [threw |-> TRUE, value |-> JsNull, message |-> SyntaxErrorMessage]

\* JSON.parse(text): [threw, value, message].
JSON_parse(text) == ParsedText(text, ParseValue(text, 1))

----------------------------------------------------------------------------
(* The helpers of the two JSON engine files.                                *)

\* part_000: parseJsonSafely(text) = { success, data, error }
parseJsonSafely(text) ==
    LET r == JSON_parse(text)
    IN  [success |-> ~r.threw, data |-> r.value, error |-> [message |-> r.message]]

\* src/snipJson.js: parseJson(data) = { success, parsedData, error }
parseJson(data) ==
    LET r == JSON_parse(data)
    IN  [success |-> ~r.threw, parsedData |-> r.value, error |-> [message |-> r.message]]

\* The position after the run of \s that starts at position p.
RECURSIVE SkipSpace(_, _)
SkipSpace(s, p) ==
    IF p <= Len(s) /\ s[p] \in WhiteSpace THEN SkipSpace(s, p + 1) ELSE p

\* The length of the match of /['"]\s*\+\s*['"]?/ at position p, 0 for none.
MatchConcat(s, p) ==
    LET q == SkipSpace(s, p + 1)
        r == SkipSpace(s, q + 1)
        e == IF r <= Len(s) /\ s[r] \in Quotes THEN r + 1 ELSE r
    IN  IF s[p] \in Quotes /\ q <= Len(s) /\ s[q] = "+" THEN e - p ELSE 0

\* .replace(/['"]\s*\+\s*['"]?/g, "")
RECURSIVE removeConcat(_, _)
removeConcat(s, p) ==
    IF p > Len(s) THEN <<>>
    ELSE IF MatchConcat(s, p) > 0 THEN removeConcat(s, p + MatchConcat(s, p))
    ELSE <<s[p]>> \o removeConcat(s, p + 1)

Fence == <<Backtick, Backtick, Backtick>>
FenceJson == Fence \o <<"j", "s", "o", "n">>

\* The length of the match of /^```json|```$/m at position p, 0 for none.
MatchFence(s, p) ==
    IF /\ p = 1 \/ s[p - 1] \in LineTerminators
       /\ OccursAt(s, FenceJson, p - 1)
    THEN Len(FenceJson)
    ELSE IF /\ OccursAt(s, Fence, p - 1)
            /\ p + 3 > Len(s) \/ s[p + 3] \in LineTerminators
    THEN Len(Fence)
    ELSE 0

\* .replace(/^```json|```$/gm, "")
RECURSIVE stripFences(_, _)
stripFences(s, p) ==
    IF p > Len(s) THEN <<>>
    ELSE IF MatchFence(s, p) > 0 THEN stripFences(s, p + MatchFence(s, p))
    ELSE <<s[p]>> \o stripFences(s, p + 1)

\* .replace(/^['"]|['"]$/g, "")
stripOuterQuotes(s) ==
    LET first == s # <<>> /\ s[1] \in Quotes
        last  == s # <<>> /\ s[Len(s)] \in Quotes /\ ~(first /\ Len(s) = 1)
    IN  SubSeq(s, IF first THEN 2 ELSE 1, IF last THEN Len(s) - 1 ELSE Len(s))

\* .replace(/`/g, "")
stripBackticks(s) == SelectSeq(s, LAMBDA c : c # Backtick)

\* .replace(/\\n/g, "\n")
RECURSIVE unescapeNewlines(_, _)
unescapeNewlines(s, p) ==
    IF p > Len(s) THEN <<>>
    ELSE IF s[p] = "\\" /\ p + 1 <= Len(s) /\ s[p + 1] = "n"
         THEN <<"\n">> \o unescapeNewlines(s, p + 2)
    ELSE <<s[p]>> \o unescapeNewlines(s, p + 1)

\* part_000: sanitizeContent
sanitizeContent0(s) ==
    trim(unescapeNewlines(
           stripBackticks(stripOuterQuotes(stripFences(removeConcat(s, 1), 1))), 1))

\* src/snipJson.js: sanitizeContent
sanitizeContent(s) == trim(stripFences(removeConcat(s, 1), 1))

\* PAIRS / braces: { "{": "}", "[": "]" }; undefined for any other key.
PAIRS(c) == CASE c = "{" -> "}" [] c = "[" -> "]" [] OTHER -> NoChar
OPENING == {"{", "["}
CLOSING == {"}", "]"}

\* Array.prototype.pop: the popped element (undefined on an empty array)
\* and the array left.
Top(st) == IF st = <<>> THEN NoChar ELSE st[Len(st)]
Pop(st) == IF st = <<>> THEN <<>> ELSE SubSeq(st, 1, Len(st) - 1)

----------------------------------------------------------------------------
(* Results, exceptions and how a call ends.                                *)

Result(status, comments, data, raw) ==
    [status |-> status, comments |-> comments, data |-> data, raw |-> raw]

\* The record both engines start from.
InitialResult == Result("fail", <<>>, JsNull, JsNull)

\* No Result yet.
NoResult == Result("none", <<>>, JsNull, JsNull)
NoValue == [t |-> "none"]
NoExc == [name |-> "none", message |-> <<>>, result |-> NoResult]

\* An engine returns r: to the caller of the engine, or through snipSmart
\* to the caller of snipSmart, or to snipSmartOrThrow.
Return(r) ==
    /\ result' = r
    /\ IF fn = "snipSmartOrThrow"
       THEN pc' = "strict" /\ ret' = ret
       ELSE pc' = "done" /\ ret' = r
    /\ exc' = exc

\* The locals of the scans, which a step that returns leaves as they are.
locals == <<content, i, stack, start, end, snippetStart, caseSensitive>>
\* The call itself, which no step of it changes.
call == <<fn, arg, opt, prev>>

\* An exception leaves the engine: no caller catches it.
Throw(e) ==
    /\ exc' = e
    /\ pc' = "done"
    /\ UNCHANGED <<result, ret>>

----------------------------------------------------------------------------------------------------------------------------------------
(* The JSON engine of src/unnamed/part_000.                                *)

\* Lines 75-80: the earlier of the first "{" and the first "[", or -1.
LocateStart(firstObject, firstArray) ==
    IF firstObject = -1 THEN firstArray
    ELSE IF firstArray = -1 THEN firstObject
    ELSE Min(firstObject, firstArray)

\* Lines 94-104 and 110-111: the fast path on the slice up to the last
\* expected closer; the structural scan starts when it does not succeed.
FastPath0(c, st, lastClosing, parsed) ==
    IF lastClosing > st /\ parsed.success
    THEN /\ Return(Result("success",
                          <<"JSON successfully extracted and parsed.">>,
                          parsed.data, JsNull))
         /\ content' = c
         /\ start' = st
         /\ UNCHANGED <<i, stack, end, snippetStart, caseSensitive>>
    ELSE /\ pc' = "json0_scan"
         /\ content' = c
         /\ start' = st
         /\ stack' = <<>>
         /\ end' = -1
         /\ i' = st
         /\ result' = InitialResult
         /\ UNCHANGED <<snippetStart, caseSensitive, ret, exc>>

\* A variant of NoStructure0 that words the comment differently and fills raw.
NoStructure0_valid(r) ==
    [r EXCEPT !.comments = <<"No valid JSON structure found.">>, !.raw = Str(<<>>)]

\* Lines 82-85: the Result when the text holds no "{" and no "[".
NoStructure0(r) == [r EXCEPT !.comments = <<"No JSON structure found.">>]

\* Lines 82-96: no start, or the candidate of the fast path.
Located0(c, st, lastClosing) ==
    IF st = -1
    THEN /\ Return(NoStructure0(InitialResult))
         /\ content' = c
         /\ UNCHANGED <<i, stack, start, end, snippetStart, caseSensitive>>
    ELSE FastPath0(c, st, lastClosing, parseJsonSafely(slice(c, st, lastClosing + 1)))

\* Lines 91-92: the last occurrence of the closer paired with content[start].
Started0(c, st) == Located0(c, st, lastIndexOf(c, <<PAIRS(At(c, st))>>))

\* Lines 62-80: the sanitized content and its start.
Sanitized0(c) == Started0(c, LocateStart(indexOf(c, <<"{">>), indexOf(c, <<"[">>)))

\* Lines 49-104: input check, sanitizing, step 1 (locate the start) and
\* step 2 (fast path).
snipJson0_enter ==
    /\ pc = "json0"
    /\ UNCHANGED call
    /\ IF typeof(arg) # "string" \/ ~Truthy(arg)
       THEN /\ Return([InitialResult EXCEPT !.comments =
                         <<"Invalid input: content must be a non-empty string.">>])
            /\ UNCHANGED locals
       ELSE Sanitized0(sanitizeContent0(arg.chars))

\* A variant of BracketMismatch0 whose raw stops before the closer.
BracketMismatch0_before(r, c, st, k) ==
    [r EXCEPT !.comments = <<"Bracket mismatch detected.">>,
              !.raw = Str(slice(c, st, k))]

\* Lines 120-123: the Result for a closer at index k that does not pair.
BracketMismatch0(r, c, st, k) ==
    [r EXCEPT !.comments = <<"Bracket mismatch detected.">>,
              !.raw = Str(slice(c, st, k + 1))]

\* A variant of Closing0 that scans on when the stack has emptied.
Closing0_noBreak(char, last) ==
    IF last = NoChar \/ PAIRS(last) # char
    THEN /\ Return(BracketMismatch0(result, content, start, i))
         /\ stack' = Pop(stack)
         /\ UNCHANGED <<content, i, start, end, snippetStart, caseSensitive>>
    ELSE /\ stack' = Pop(stack)
         /\ i' = i + 1
         /\ UNCHANGED <<pc, content, start, end, snippetStart,
                        caseSensitive, result, ret, exc>>

\* Lines 118-131: a closing delimiter, last the popped delimiter.
Closing0(char, last) ==
    IF last = NoChar \/ PAIRS(last) # char
    THEN /\ Return(BracketMismatch0(result, content, start, i))
         /\ stack' = Pop(stack)
         /\ UNCHANGED <<content, i, start, end, snippetStart, caseSensitive>>
    ELSE IF Len(Pop(stack)) = 0
    THEN /\ stack' = Pop(stack)
         /\ end' = i
         /\ pc' = "json0_final"
         /\ UNCHANGED <<content, i, start, snippetStart, caseSensitive,
                        result, ret, exc>>
    ELSE /\ stack' = Pop(stack)
         /\ i' = i + 1
         /\ UNCHANGED <<pc, content, start, end, snippetStart,
                        caseSensitive, result, ret, exc>>

\* Lines 114-131: the character at i.
Scan0(char) ==
    IF char \in OPENING
    THEN /\ stack' = Append(stack, char)
         /\ i' = i + 1
         /\ UNCHANGED <<pc, content, start, end, snippetStart,
                        caseSensitive, result, ret, exc>>
    ELSE IF char \in CLOSING
    THEN Closing0(char, Top(stack))
    ELSE /\ i' = i + 1
         /\ UNCHANGED <<pc, content, stack, start, end, snippetStart,
                        caseSensitive, result, ret, exc>>

\* Lines 113-132: one iteration of the structural scan.
snipJson0_scan ==
    /\ pc = "json0_scan"
    /\ i < Len(content)
    /\ UNCHANGED call
    /\ Scan0(At(content, i))

\* A variant of RepairResult0 that keeps the repaired text in raw always.
RepairResult0_keepRaw(repaired, parsed) ==
    Result(IF parsed.success THEN "check" ELSE "fail",
           IF parsed.success
           THEN <<"One missing closing bracket auto-added. Please verify.">>
           ELSE <<"Auto-closure attempted but parsing failed: ">>
                  \o parsed.error.message,
           IF parsed.success THEN parsed.data ELSE JsNull,
           Str(repaired))

\* Lines 140-146: the Result of the repair attempt.
RepairResult0(repaired, parsed) ==
    Result(IF parsed.success THEN "check" ELSE "fail",
           IF parsed.success
           THEN <<"One missing closing bracket auto-added. Please verify.">>
           ELSE <<"Auto-closure attempted but parsing failed: ">>
                  \o parsed.error.message,
           IF parsed.success THEN parsed.data ELSE JsNull,
           IF parsed.success THEN JsNull ELSE Str(repaired))

\* Line 138: the repaired candidate is parsed.
Repair0(repaired) == RepairResult0(repaired, parseJsonSafely(repaired))

\* A variant of Repaired0 that closes with "}" whatever is open.
Repaired0_brace(c, st, open) == sliceFrom(c, st) \o <<"}">>

\* Line 137: the text from start on, with the closer of the open delimiter.
Repaired0(c, st, open) == sliceFrom(c, st) \o <<PAIRS(open)>>

\* Lines 134-153: the scan ran off the text with end = -1.
snipJson0_unclosed ==
    /\ pc = "json0_scan"
    /\ i >= Len(content)
    /\ UNCHANGED call
    /\ IF Len(stack) = 1
       THEN /\ Return(Repair0(Repaired0(content, start, Top(stack))))
            /\ stack' = Pop(stack)
            /\ UNCHANGED <<content, i, start, end, snippetStart, caseSensitive>>
       ELSE /\ Return([result EXCEPT
                         !.comments = <<"Unbalanced JSON structure.">>,
                         !.raw = Str(sliceFrom(content, start))])
            /\ UNCHANGED locals

\* A variant of FinalResult0 that fails when the candidate does not decode.
FinalResult0_fail(finalCandidate, finalParse) ==
    Result(IF finalParse.success THEN "success" ELSE "fail",
           IF finalParse.success
           THEN <<"JSON successfully extracted and parsed.">>
           ELSE <<"Structurally valid JSON failed to parse: ">>
                  \o finalParse.error.message,
           IF finalParse.success THEN finalParse.data ELSE JsNull,
           IF finalParse.success THEN JsNull ELSE Str(finalCandidate))

\* Lines 162-168: the Result of the final parse.
FinalResult0(finalCandidate, finalParse) ==
    Result(IF finalParse.success THEN "success" ELSE "check",
           IF finalParse.success
           THEN <<"JSON successfully extracted and parsed.">>
           ELSE <<"Structurally valid JSON failed to parse: ">>
                  \o finalParse.error.message,
           IF finalParse.success THEN finalParse.data ELSE JsNull,
           IF finalParse.success THEN JsNull ELSE Str(finalCandidate))

\* Line 160: the balanced candidate is parsed.
Final0(finalCandidate) ==
    FinalResult0(finalCandidate, parseJsonSafely(finalCandidate))

\* Lines 159-170: step 4, the final parse of the balanced candidate.
snipJson0_final ==
    /\ pc = "json0_final"
    /\ UNCHANGED <<call, locals>>
    /\ Return(Final0(slice(content, start, end + 1)))

----------------------------------------------------------------------------
(* The JSON engine of src/src/snipJson.js, the one index.js imports.       *)

\* Infinity among the indices of startingBrace: above every index a string
\* has (no string is longer than 2^31 - 1), so that Math.min with it is the
\* index and only Infinity is equal to it.
Infinity == 2147483647

UndefinedChars == <<"u", "n", "d", "e", "f", "i", "n", "e", "d">>

\* The TypeError of content.replace (line 39) on a value that is no string.
TypeError(v) ==
    [name |-> "TypeError",
     message |-> IF v.t = "null"
                 THEN <<"Cannot read properties of null (reading 'replace')">>
                 ELSE IF v.t = "undefined"
                 THEN <<"Cannot read properties of undefined (reading 'replace')">>
                 ELSE <<"content.replace is not a function">>,
     result |-> NoResult]

\* Lines 68-71: the earlier first brace, Infinity when there is none.
StartingBrace(firstObject, firstArray) ==
    Min(IF firstObject >= 0 THEN firstObject ELSE Infinity,
        IF firstArray >= 0 THEN firstArray ELSE Infinity)

\* Line 72: lastIndexOf(braces[content[startingBrace]]); an undefined
\* argument is searched for as the text "undefined".
EndingBrace(c, closer) ==
    lastIndexOf(c, IF closer = NoChar THEN UndefinedChars ELSE <<closer>>)

\* Lines 85-93: the parse of the simple slice.
FirstParse(c, startingBrace, firstParse) ==
    IF firstParse.success
    THEN /\ Return(Result("success",
                          <<"JSON successfully extracted and parsed.">>,
                          firstParse.parsedData, JsNull))
         /\ content' = c
         /\ start' = startingBrace
         /\ UNCHANGED <<i, stack, end, snippetStart, caseSensitive>>
    ELSE /\ pc' = "json_scan"
         /\ content' = c
         /\ start' = startingBrace
         /\ stack' = <<>>
         /\ end' = -1
         /\ i' = startingBrace
         /\ result' = [InitialResult EXCEPT !.comments =
                         <<"Simple slice failed. Proceeding to precise parsing">>]
         /\ UNCHANGED <<snippetStart, caseSensitive, ret, exc>>

\* Lines 74-85: check 1.
Check1(c, startingBrace, endingBrace) ==
    IF \/ startingBrace = Infinity
       \/ (endingBrace <= startingBrace /\ endingBrace # -1)
    THEN /\ Return([InitialResult EXCEPT !.comments =
                      <<"No valid JSON structure found.">>])
         /\ content' = c
         /\ UNCHANGED <<i, stack, start, end, snippetStart, caseSensitive>>
    ELSE FirstParse(c, startingBrace,
                    parseJson(slice(c, startingBrace, endingBrace + 1)))

Located(c, startingBrace) ==
    Check1(c, startingBrace, EndingBrace(c, PAIRS(At(c, startingBrace))))

\* Lines 61-72: the input check on the sanitized content.
Sanitized(c) ==
    IF c = <<>>
    THEN /\ Return([InitialResult EXCEPT !.comments =
                      <<"Invalid input: content must be a string.">>])
         /\ content' = c
         /\ UNCHANGED <<i, stack, start, end, snippetStart, caseSensitive>>
    ELSE Located(c, StartingBrace(indexOf(c, <<"{">>), indexOf(c, <<"[">>)))

\* Lines 46-93: sanitizing, input check, check 1 (locate, simple slice).
\* sanitizeContent calls content.replace, which a non-string has not.
snipJson_enter ==
    /\ pc = "json"
    /\ UNCHANGED call
    /\ IF typeof(arg) # "string"
       THEN Throw(TypeError(arg)) /\ UNCHANGED locals
       ELSE Sanitized(sanitizeContent(arg.chars))

\* Lines 104-115: the character at i; pushed is the stack after line 104.
Scan(char, pushed) ==
    IF char \in CLOSING /\ (Top(pushed) = NoChar \/ PAIRS(Top(pushed)) # char)
    THEN /\ Return(Result("fail", <<"Bracket mismatch">>, JsNull,
                          Str(slice(content, start, i + 1))))
         /\ stack' = Pop(pushed)
         /\ end' = i
         /\ UNCHANGED <<content, i, start, snippetStart, caseSensitive>>
    ELSE /\ stack' = IF char \in CLOSING THEN Pop(pushed) ELSE pushed
         /\ end' = i
         /\ i' = i + 1
         /\ UNCHANGED <<pc, content, start, snippetStart, caseSensitive,
                        result, ret, exc>>

\* Lines 101-116: one iteration of the brace-matching loop.
snipJson_scan ==
    /\ pc = "json_scan"
    /\ i < Len(content)
    /\ UNCHANGED call
    /\ Scan(At(content, i),
            IF At(content, i) \in OPENING THEN Append(stack, At(content, i))
            ELSE stack)

\* Lines 130-136: the Result after one closing brace was added.
SecondResult(dataParsed, secondParse) ==
    Result(IF secondParse.success THEN "check" ELSE "fail",
           <<"Added missing closing brace. ">> \o
             (IF secondParse.success THEN <<"Parsing passed">>
              ELSE <<"But parsing failed. Error: ">> \o secondParse.error.message),
           secondParse.parsedData,
           IF secondParse.success THEN JsNull ELSE Str(dataParsed))

SecondParse(dataParsed) == SecondResult(dataParsed, parseJson(dataParsed))

\* Lines 142-147: the Result of the third parse.
ThirdResult(dataParsed, thirdParse) ==
    Result(IF thirdParse.success THEN "success" ELSE "check",
           IF thirdParse.success
           THEN <<"JSON successfully extracted and parsed.">>
           ELSE <<"Extracted candidate JSON passed bracket validation but failed to parse. Check result.raw. Error : ">>
                  \o thirdParse.error.message,
           IF thirdParse.success THEN thirdParse.parsedData ELSE JsNull,
           IF thirdParse.success THEN JsNull ELSE Str(dataParsed))

ThirdParse(dataParsed) == ThirdResult(dataParsed, parseJson(dataParsed))

\* Lines 118-149: after the loop: unmatched opening braces, or the third
\* parse.
snipJson_end ==
    /\ pc = "json_scan"
    /\ i >= Len(content)
    /\ UNCHANGED call
    /\ IF Len(stack) > 1
       THEN /\ Return(Result("fail", <<"Bracket mismatch">>, JsNull,
                             Str(slice(content, start, end + 1))))
            /\ UNCHANGED locals
       ELSE IF Len(stack) = 1
       THEN /\ Return(SecondParse(slice(content, start, end + 1)
                                    \o <<PAIRS(Top(stack))>>))
            /\ stack' = Pop(stack)
            /\ UNCHANGED <<content, i, start, end, snippetStart, caseSensitive>>
       ELSE /\ Return(ThirdParse(slice(content, start, end + 1)))
            /\ UNCHANGED locals

----------------
(* The tag engine, src/src/snipByTag.js.                                   *)

UpperCase == <<"A", "B", "C", "D", "E", "F", "G", "H", "I", "J", "K", "L", "M",
               "N", "O", "P", "Q", "R", "S", "T", "U", "V", "W", "X", "Y", "Z">>
LowerCase == <<"a", "b", "c", "d", "e", "f", "g", "h", "i", "j", "k", "l", "m",
               "n", "o", "p", "q", "r", "s", "t", "u", "v", "w", "x", "y", "z">>
Range(f) == {f[k] : k \in DOMAIN f}

\* /[\w:-]/
NameChars == Range(UpperCase) \cup Range(LowerCase) \cup Digits \cup {"_", ":", "-"}

\* String.prototype.toLowerCase()
toLowerCase(s) ==
    [k \in 1..Len(s) |->
        IF s[k] \in Range(UpperCase)
        THEN LowerCase[CHOOSE n \in 1..26 : UpperCase[n] = s[k]]
        ELSE s[k]]

\* Lines 59-61: the index after the run of name characters from k on.
RECURSIVE ReadTagName(_, _)
ReadTagName(s, k) ==
    IF k < Len(s) /\ At(s, k) \in NameChars THEN ReadTagName(s, k + 1) ELSE k

\* Lines 74-82: skip attributes up to ">", or past "/>".
RECURSIVE SkipToTagEnd(_, _)
SkipToTagEnd(s, k) ==
    IF k < Len(s) /\ At(s, k) # ">"
    THEN IF At(s, k) = "/" /\ At(s, k + 1) = ">"
         THEN [i |-> k + 2, isSelfClosing |-> TRUE]
         ELSE SkipToTagEnd(s, k + 1)
    ELSE [i |-> k, isSelfClosing |-> FALSE]

\* obj[key]
Get(o, key) ==
    IF o.t = "object" /\ \E n \in 1..Len(o.entries) : o.entries[n].key = key
    THEN o.entries[CHOOSE n \in 1..Len(o.entries) : o.entries[n].key = key].value
    ELSE JsUndefined

K_caseSensitive == <<"c", "a", "s", "e", "S", "e", "n", "s", "i", "t", "i", "v", "e">>
K_format == <<"f", "o", "r", "m", "a", "t">>

K_toString == <<"t", "o", "S", "t", "r", "i", "n", "g">>

\* The characters of digits.
DigitText(d) ==
    [k \in 1..Len(d) |->
        <<"0", "1", "2", "3", "4", "5", "6", "7", "8", "9">>[d[k] + 1]]

\* Number::toString for the positive finite Number digits * 10^exp: with k
\* digits and n = k + exp, the digits and zeros for k <= n <= 21, a point
\* inside the digits for 0 < n <= 21, "0." and zeros for -6 < n <= 0, and
\* the exponent n - 1 otherwise.
PositiveText(digits, k, n) ==
    IF k <= n /\ n <= 21
    THEN DigitText(digits) \o [j \in 1..(n - k) |-> "0"]
    ELSE IF 0 < n /\ n <= 21
    THEN DigitText(SubSeq(digits, 1, n)) \o <<".">>
           \o DigitText(SubSeq(digits, n + 1, k))
    ELSE IF -6 < n /\ n <= 0
    THEN <<"0", ".">> \o [j \in 1..(0 - n) |-> "0"] \o DigitText(digits)
    ELSE DigitText(<<digits[1]>>)
           \o (IF k > 1 THEN <<".">> \o DigitText(SubSeq(digits, 2, k)) ELSE <<>>)
           \o <<"e", IF n - 1 < 0 THEN "-" ELSE "+">>
           \o DigitText(NatDigits(IF n - 1 < 0 THEN 1 - n ELSE n - 1))

\* Number::toString: 0 and -0 are "0".
NumberToString(v) ==
    IF v.kind = "zero" THEN <<"0">>
    ELSE (IF v.neg THEN <<"-">> ELSE <<>>)
           \o (IF v.kind = "infinite"
               THEN <<"I", "n", "f", "i", "n", "i", "t", "y">>
               ELSE PositiveText(v.digits, Len(v.digits), Len(v.digits) + v.exp))

\* Whether String(v) returns.  An object whose own toString is not a
\* function (no value of this module is one) is left with valueOf, which
\* yields no primitive either, and the conversion throws; an array is
\* joined, its elements converted in turn.
RECURSIVE Convertible(_)
Convertible(v) ==
    CASE v.t = "object" -> \A n \in 1..Len(v.entries) : v.entries[n].key # K_toString
      [] v.t = "array"  -> \A n \in 1..Len(v.items) : Convertible(v.items[n])
      [] OTHER          -> TRUE

\* The TypeError of a conversion that does not return.
ConversionError ==
    [name |-> "TypeError",
     message |-> <<"Cannot convert object to primitive value">>,
     result |-> NoResult]

\* String(v), as a template literal takes it, for a Convertible v.
RECURSIVE JsString(_)
RECURSIVE Join(_)
\* Array.prototype.join(): null and undefined elements are written empty.
Join(items) ==
    IF items = <<>> THEN <<>>
    ELSE (IF Head(items).t \in {"null", "undefined"} THEN <<>>
          ELSE JsString(Head(items)))
           \o (IF Len(items) > 1 THEN <<",">> ELSE <<>>)
           \o Join(Tail(items))

JsString(v) ==
    CASE v.t = "string"    -> v.chars
      [] v.t = "undefined" -> UndefinedChars
      [] v.t = "null"      -> <<"n", "u", "l", "l">>
      [] v.t = "boolean"   -> IF v.b THEN <<"t", "r", "u", "e">>
                              ELSE <<"f", "a", "l", "s", "e">>
      [] v.t = "number"    -> NumberToString(v)
      [] v.t = "array"     -> Join(v.items)
      [] OTHER             -> <<"[object Object]">>

\* A variant of TagOptions in which snipSmart hands its options on.
TagOptions_passed == opt

\* The second argument the tag engine receives: snipSmart passes none.
TagOptions == IF fn = "snipByTag" THEN opt ELSE JsUndefined

\* The TypeError of destructuring null (line 20).
NullOptions ==
    [name |-> "TypeError",
     message |-> <<"Cannot read properties of null (reading 'caseSensitive')">>,
     result |-> NoResult]

\* Lines 20-35: the options, the input check, the locals.  The default {}
\* stands in for an undefined second argument only; null has no properties
\* to read.
snipByTag_enter ==
    /\ pc = "tag"
    /\ UNCHANGED call
    /\ IF TagOptions.t = "null"
       THEN Throw(NullOptions) /\ UNCHANGED locals
       ELSE /\ caseSensitive' =
                  (IF Get(TagOptions, K_caseSensitive).t = "undefined" THEN FALSE
                   ELSE Truthy(Get(TagOptions, K_caseSensitive)))
            /\ IF typeof(arg) # "string" \/ ~Truthy(arg)
               THEN /\ Return([InitialResult EXCEPT !.comments =
                                 <<"Invalid input: content must be a non-empty string.">>])
                    /\ UNCHANGED <<content, i, stack, start, end, snippetStart>>
               ELSE /\ pc' = "tag_scan"
                    /\ content' = arg.chars
                    /\ stack' = <<>>
                    /\ snippetStart' = -1
                    /\ i' = 0
                    /\ result' = InitialResult
                    /\ UNCHANGED <<start, end, ret, exc>>

\* Lines 38-41: a character that is not "<".
snipByTag_skip ==
    /\ pc = "tag_scan"
    /\ i < Len(content)
    /\ At(content, i) # "<"
    /\ i' = i + 1
    /\ UNCHANGED <<call, pc, content, stack, start, end, snippetStart,
                   caseSensitive, result, ret, exc>>

\* A variant of InvalidTagName whose raw runs to the end of the input.
InvalidTagName_toEnd(r, c, sStart, k) ==
    [r EXCEPT !.comments = <<"Invalid tag name.">>,
              !.raw = IF sStart # -1 THEN Str(sliceFrom(c, sStart)) ELSE JsNull]

\* Lines 65-68: the Result for an empty tag name read up to index k.
InvalidTagName(r, c, sStart, k) ==
    [r EXCEPT !.comments = <<"Invalid tag name.">>,
              !.raw = IF sStart # -1 THEN Str(slice(c, sStart, k)) ELSE JsNull]

\* A variant of MismatchedClosingTag whose raw runs to the end of the input.
MismatchedClosingTag_toEnd(r, c, sStart, tagEnd, last, tagName) ==
    [r EXCEPT !.comments = <<"Mismatched closing tag: expected </">>
                             \o JsString(last) \o <<"> but found </">>
                             \o tagName \o <<">.">>,
              !.raw = IF sStart # -1 THEN Str(sliceFrom(c, sStart)) ELSE JsNull]

\* Lines 92-96: the Result for a closing tag that does not match the popped
\* name last.
MismatchedClosingTag(r, c, sStart, tagEnd, last, tagName) ==
    [r EXCEPT !.comments = <<"Mismatched closing tag: expected </">>
                             \o JsString(last) \o <<"> but found </">>
                             \o tagName \o <<">.">>,
              !.raw = IF sStart # -1 THEN Str(slice(c, sStart, tagEnd)) ELSE JsNull]

\* A variant of ValidTagStructure whose data stops one character early.
ValidTagStructure_short(r, c, sStart, tagEnd) ==
    [r EXCEPT !.status = "success",
              !.comments = <<"Valid tag structure found.">>,
              !.data = Str(slice(c, sStart, tagEnd - 1))]

\* A variant of ValidTagStructure whose data runs to the end of the input.
ValidTagStructure_toEnd(r, c, sStart, tagEnd) ==
    [r EXCEPT !.status = "success",
              !.comments = <<"Valid tag structure found.">>,
              !.data = Str(sliceFrom(c, sStart))]

\* Lines 103-107: the Result once all tags are closed.
ValidTagStructure(r, c, sStart, tagEnd) ==
    [r EXCEPT !.status = "success",
              !.comments = <<"Valid tag structure found.">>,
              !.data = Str(slice(c, sStart, tagEnd))]

\* A variant of UnclosedTag that names the outermost open tag.
UnclosedTag_outermost(r, c, sStart, st) ==
    [r EXCEPT !.comments = <<"Unclosed tag <">> \o st[1] \o <<">.">>,
              !.raw = IF sStart # -1 THEN Str(sliceFrom(c, sStart)) ELSE JsNull]

\* Lines 112-114: the Result for a stack st left non-empty.
UnclosedTag(r, c, sStart, st) ==
    [r EXCEPT !.comments = <<"Unclosed tag <">> \o st[Len(st)] \o <<">.">>,
              !.raw = IF sStart # -1 THEN Str(sliceFrom(c, sStart)) ELSE JsNull]

\* Lines 89-100: the stack after the tag.
ProcessTag(st, isClosing, isSelfClosing, tagName) ==
    IF isClosing THEN Pop(st)
    ELSE IF ~isSelfClosing THEN Append(st, tagName)
    ELSE st

\* A variant of FoldName that folds the name whatever the option says.
FoldName_always(cs, tagNameRaw) == toLowerCase(tagNameRaw)

\* Line 71: the name as it is compared.
FoldName(cs, tagNameRaw) == IF cs THEN tagNameRaw ELSE toLowerCase(tagNameRaw)

\* A variant of AllClosed that takes the snippet start for a truth value.
AllClosed_truthy(st, sStart) == Len(st) = 0 /\ sStart # 0

\* Line 103: all tags are closed and a snippet start is recorded.
AllClosed(st, sStart) == Len(st) = 0 /\ sStart # -1

\* Lines 43-108: one tag, from its "<" on.
snipByTag_tag ==
    /\ pc = "tag_scan"
    /\ i < Len(content)
    /\ At(content, i) = "<"
    /\ UNCHANGED <<call, content, start, end, caseSensitive>>
    /\ LET sStart       == IF snippetStart = -1 THEN i ELSE snippetStart
           isClosing    == At(content, i + 1) = "/"
           tagNameStart == IF isClosing THEN i + 2 ELSE i + 1
           nameEnd      == ReadTagName(content, tagNameStart)
           tagNameRaw   == trim(slice(content, tagNameStart, nameEnd))
           tagName      == FoldName(caseSensitive, tagNameRaw)
           skipped      == SkipToTagEnd(content, nameEnd)
           tagEnd       == IF At(content, skipped.i) = ">"
                           THEN skipped.i + 1 ELSE skipped.i
           last         == IF stack = <<>> THEN JsUndefined
                           ELSE Str(stack[Len(stack)])
           newStack     == ProcessTag(stack, isClosing, skipped.isSelfClosing, tagName)
       IN  /\ snippetStart' = sStart
           /\ IF tagNameRaw = <<>>
              THEN /\ Return(InvalidTagName(result, content, sStart, nameEnd))
                   /\ i' = nameEnd
                   /\ stack' = stack
              ELSE IF isClosing /\ last # Str(tagName)
              THEN /\ Return(MismatchedClosingTag(result, content, sStart, tagEnd,
                                                  last, tagName))
                   /\ i' = tagEnd
                   /\ stack' = newStack
              ELSE IF AllClosed(newStack, sStart)
              THEN /\ Return(ValidTagStructure(result, content, sStart, tagEnd))
                   /\ i' = tagEnd
                   /\ stack' = newStack
              ELSE /\ i' = tagEnd
                   /\ stack' = newStack
                   /\ UNCHANGED <<pc, result, ret, exc>>

\* Lines 111-122: end-of-input handling.
snipByTag_end ==
    /\ pc = "tag_scan"
    /\ i >= Len(content)
    /\ UNCHANGED <<call, content, i, start, end, snippetStart, caseSensitive>>
    /\ IF Len(stack) > 0
       THEN /\ Return(UnclosedTag(result, content, snippetStart, stack))
            /\ stack' = Pop(stack)
       ELSE IF snippetStart # -1
       THEN /\ Return([result EXCEPT
                         !.comments = <<"Incomplete tag structure.">>,
                         !.raw = Str(sliceFrom(content, snippetStart))])
            /\ stack' = stack
       ELSE /\ Return([result EXCEPT !.comments = <<"No tags found.">>])
            /\ stack' = stack

----------------
(* The dispatcher and the strict wrapper, src/src/index.js.                *)

C_json == <<"j", "s", "o", "n">>
C_tag  == <<"t", "a", "g">>

\* Lines 12-14: the default parameter and the format.
Format(options) ==
    LET o == IF options.t = "undefined" THEN Str(C_json) ELSE options
        f == IF o.t = "null" THEN JsUndefined ELSE Get(o, K_format)
    IN  IF typeof(o) = "string" THEN o
        ELSE IF Truthy(f) THEN f ELSE Str(C_json)

\* Lines 24-29: the Result for a format that is neither "json" nor "tag".
InvalidFormat(format, c) ==
    Result("fail",
           <<"Invalid format '">> \o JsString(format)
             \o <<"'. Expected 'json' or 'tag'.">>,
           JsNull, c)

\* Lines 12-31: snipSmart picks the engine, or fails on the format itself;
\* the template literal of line 26 throws on a format it cannot convert, and
\* neither snipSmart nor snipSmartOrThrow catches that.
snipSmart ==
    /\ pc = "call"
    /\ fn \in {"snipSmart", "snipSmartOrThrow"}
    /\ UNCHANGED <<call, locals>>
    /\ LET format == Format(opt)
       IN  IF format = Str(C_json)
           THEN pc' = "json" /\ UNCHANGED <<result, ret, exc>>
           ELSE IF format = Str(C_tag)
           THEN pc' = "tag" /\ UNCHANGED <<result, ret, exc>>
           ELSE IF ~Convertible(format)
           THEN Throw(ConversionError)
           ELSE Return(InvalidFormat(format, arg))

SnipSmartError(message, r) ==
    [name |-> "SnipSmartError", message |-> message, result |-> r]

\* A variant of snipSmartOrThrow that throws on status "fail" only.
snipSmartOrThrow_failOnly ==
    /\ pc = "strict"
    /\ UNCHANGED <<call, locals, result>>
    /\ pc' = "done"
    /\ IF result.status = "fail"
       THEN exc' = SnipSmartError(result.comments, result) /\ ret' = ret
       ELSE ret' = result.data /\ exc' = exc

\* Lines 33-41: snipSmartOrThrow, once snipSmart has returned.
snipSmartOrThrow ==
    /\ pc = "strict"
    /\ UNCHANGED <<call, locals, result>>
    /\ pc' = "done"
    /\ IF result.status # "success"
       THEN exc' = SnipSmartError(result.comments, result) /\ ret' = ret
       ELSE ret' = result.data /\ exc' = exc

----------------------------------------------------------------------------
(* Inputs.  A string is a concatenation of at most a bounded number of     *)
(* tokens, so that realistic snippets fit into small bounds.               *)

RECURSIVE Flatten(_)
Flatten(ts) == IF ts = <<>> THEN <<>> ELSE Head(ts) \o Flatten(Tail(ts))

\* The strings made of at most n tokens of T.
Strings(T, n) == {Flatten(ts) : ts \in UNION {[1..k -> T] : k \in 0..n}}

JsonTokens ==
    { <<"{", "\"", "a", "\"", ":">>,        \* opens an object, with a key
      <<"}">>, <<"[">>, <<"]">>,
      <<"1">>, <<",">>,
      <<"\"", "+", "\"">>,                  \* the JSON string "+"
      <<"x">> }                             \* prose

TagTokens ==
    { <<"<", "a", ">">>, <<"<", "/", "a", ">">>,
      <<"<", "b", " ", "c", ">">>,          \* an opening tag with an attribute
      <<"<", "/", "b", ">">>,
      <<"<", "/", "A", ">">>,               \* closes <a> when case is folded
      <<"<", "b", "r", "/", ">">>,          \* self-closing
      <<"<">>,                              \* a "<" that starts no tag
      <<">">>, <<"x">> }                    \* prose

MixTokens ==
    { <<"[">>, <<"]">>, <<"1">>, <<",">>,
      <<"<", "a", ">">>, <<"<", "/", "a", ">">>, <<"x">> }

\* Second arguments of snipSmart and snipSmartOrThrow.
DispatchOptions ==
    { JsUndefined, JsNull, Str(C_json), Str(C_tag), Str(<<"x", "m", "l">>), Str(<<>>),
      Obj(<<>>),
      Obj(<<[key |-> K_format, value |-> Str(C_tag)],
            [key |-> K_caseSensitive, value |-> JsTrue]>>),
      Obj(<<[key |-> K_format, value |-> Str(<<"c", "s", "v">>)]>>),
      Obj(<<[key |-> K_format, value |-> Num(7, 0)]>>),
      Obj(<<[key |-> K_format, value |-> Num(5, -1)]>>),
      Obj(<<[key |-> K_format, value |-> Arr(<<Str(C_tag)>>)]>>),
      Obj(<<[key |-> K_format,
             value |-> Obj(<<[key |-> K_toString, value |-> Num(1, 0)]>>)]>>) }

\* Second arguments of snipByTag.
TagEngineOptions ==
    { JsUndefined, Obj(<<[key |-> K_caseSensitive, value |-> JsTrue]>>) }

NonStrings == {JsNull, JsUndefined, Num(5, 0)}

InitLocals ==
    /\ prev = NoResult
    /\ content = <<>>
    /\ i = 0
    /\ stack = <<>>
    /\ start = -1
    /\ end = -1
    /\ snippetStart = -1
    /\ caseSensitive = FALSE
    /\ result = NoResult
    /\ ret = NoValue
    /\ exc = NoExc

\* A call of snipSmart or snipSmartOrThrow.
InitDispatch ==
    /\ fn \in {"snipSmart", "snipSmartOrThrow"}
    /\ arg \in NonStrings \cup {Str(s) : s \in Strings(MixTokens, MaxMixTok)}
    /\ opt \in DispatchOptions
    /\ pc = "call"
    /\ InitLocals

\* A call of the JSON engine of part_000.
InitJson0 ==
    /\ fn = "snipJson0"
    /\ arg \in NonStrings \cup {Str(s) : s \in Strings(JsonTokens, MaxJsonTok)}
    /\ opt = JsUndefined
    /\ pc = "json0"
    /\ InitLocals

\* A call of the JSON engine of src/snipJson.js.
InitJson ==
    /\ fn = "snipJson"
    /\ arg \in NonStrings \cup {Str(s) : s \in Strings(JsonTokens, MaxJsonTok)}
    /\ opt = JsUndefined
    /\ pc = "json"
    /\ InitLocals

\* A call of the tag engine.
InitTag ==
    /\ fn = "snipByTag"
    /\ arg \in NonStrings \cup {Str(s) : s \in Strings(TagTokens, MaxTagTok)}
    /\ opt \in TagEngineOptions
    /\ pc = "tag"
    /\ InitLocals

NextJson0 ==
    \/ snipJson0_enter
    \/ snipJson0_scan
    \/ snipJson0_unclosed
    \/ snipJson0_final

NextJson ==
    \/ snipJson_enter
    \/ snipJson_scan
    \/ snipJson_end

NextTag ==
    \/ snipByTag_enter
    \/ snipByTag_skip
    \/ snipByTag_tag
    \/ snipByTag_end

Init == InitDispatch
Next ==
    \/ snipSmart
    \/ snipSmartOrThrow
    \/ NextJson
    \/ NextTag

\* The dispatcher, the strict wrapper and the engines they reach.
Spec == Init /\ [][Next]_vars

\* The JSON engine of part_000, called directly.
SpecJson0 == InitJson0 /\ [][NextJson0]_vars

\* The tag engine, called directly.
SpecTag == InitTag /\ [][NextTag]_vars

\* A caller hands the data of a success back to the engine that returned
\* it: a second call, with the content new and the options as they were.
CallAgain(content2, entry) ==
    /\ pc = "done"
    /\ prev = NoResult
    /\ exc = NoExc
    /\ result.status = "success"
    /\ prev' = result
    /\ arg' = content2
    /\ pc' = entry
    /\ content' = <<>>
    /\ i' = 0
    /\ stack' = <<>>
    /\ start' = -1
    /\ end' = -1
    /\ snippetStart' = -1
    /\ caseSensitive' = FALSE
    /\ result' = NoResult
    /\ ret' = NoValue
    /\ UNCHANGED <<fn, opt, exc>>

\* The surrogate code units: a high one followed by a low one is one
\* character.
HighSurrogates ==
    {"\\ud" \o a \o b \o c :
        a \in {"8", "9", "a", "b"}, b \in LowerHexDigits, c \in LowerHexDigits}
LowSurrogates ==
    {"\\ud" \o a \o b \o c :
        a \in {"c", "d", "e", "f"}, b \in LowerHexDigits, c \in LowerHexDigits}

\* The six characters of the escape that is the token c.
EscapeOf(c) ==
    LET h == CHOOSE h \in ({"0", "d"} \X LowerHexDigits \X LowerHexDigits
                             \X LowerHexDigits) :
                 "\\u" \o h[1] \o h[2] \o h[3] \o h[4] = c
    IN  <<"\\", "u", h[1], h[2], h[3], h[4]>>

\* A character inside a string literal, as JSON.stringify writes it: the
\* short escapes, \uXXXX for the other code units below U+0020 and for a
\* surrogate that is not part of a pair, the character itself otherwise.
QuoteChar(c) ==
    CASE c = "\""        -> <<"\\", "\"">>
      [] c = "\\"        -> <<"\\", "\\">>
      [] c = "\n"        -> <<"\\", "n">>
      [] c = "\t"        -> <<"\\", "t">>
      [] c = "\r"        -> <<"\\", "r">>
      [] c = "\f"        -> <<"\\", "f">>
      [] c = "BACKSPACE" -> <<"\\", "b">>
      [] OTHER           -> IF c \in ControlChars \cup HighSurrogates \cup LowSurrogates
                            THEN EscapeOf(c) ELSE <<c>>

RECURSIVE QuoteChars(_)
QuoteChars(cs) ==
    IF cs = <<>> THEN <<>>
    ELSE IF Len(cs) > 1 /\ cs[1] \in HighSurrogates /\ cs[2] \in LowSurrogates
    THEN <<cs[1], cs[2]>> \o QuoteChars(Tail(Tail(cs)))
    ELSE QuoteChar(Head(cs)) \o QuoteChars(Tail(cs))

Quote(cs) == <<"\"">> \o QuoteChars(cs) \o <<"\"">>

\* JSON.stringify(v) for a value JSON.parse returned: the JSON text of v,
\* without white space.
RECURSIVE JSON_stringify(_)
RECURSIVE StringifyItems(_)
RECURSIVE StringifyEntries(_)
StringifyItems(items) ==
    IF items = <<>> THEN <<>>
    ELSE JSON_stringify(Head(items))
           \o (IF Len(items) > 1 THEN <<",">> ELSE <<>>)
           \o StringifyItems(Tail(items))

StringifyEntries(es) ==
    IF es = <<>> THEN <<>>
    ELSE Quote(Head(es).key) \o <<":">> \o JSON_stringify(Head(es).value)
           \o (IF Len(es) > 1 THEN <<",">> ELSE <<>>)
           \o StringifyEntries(Tail(es))

JSON_stringify(v) ==
    CASE v.t = "null"    -> <<"n", "u", "l", "l">>
      [] v.t = "boolean" -> IF v.b THEN <<"t", "r", "u", "e">>
                            ELSE <<"f", "a", "l", "s", "e">>
      [] v.t = "number"  -> IF v.kind = "infinite" THEN <<"n", "u", "l", "l">>
                            ELSE NumberToString(v)
      [] v.t = "string"  -> Quote(v.chars)
      [] v.t = "array"   -> <<"[">> \o StringifyItems(v.items) \o <<"]">>
      [] v.t = "object"  -> <<"{">> \o StringifyEntries(v.entries) \o <<"}">>

\* snipJson(JSON.stringify(v)) for the data v of a success of snipJson.
snipJson0_again ==
    /\ fn = "snipJson0"
    /\ CallAgain(Str(JSON_stringify(result.data)), "json0")

\* JSON texts whose strings are written with escapes.
EscapeTokens ==
    { <<"[">>, <<"]">>, <<"{", "\"", "a", "\"", ":">>, <<"}">>,
      <<"1">>, <<",">>,
      <<"\"", "\\", "u", "0", "0", "0", "a", "\"">>,   \* the line feed, escaped
      <<"\"", "\\", "t", "\"">> }                     \* the tab, escaped

InitJson0Escapes ==
    /\ fn = "snipJson0"
    /\ arg \in {Str(s) : s \in Strings(EscapeTokens, MaxJsonTok)}
    /\ opt = JsUndefined
    /\ pc = "json0"
    /\ InitLocals

\* The JSON engine of part_000, called on a text and then on the JSON text
\* of the value it extracted.
SpecJson0Again == InitJson0Escapes /\ [][NextJson0 \/ snipJson0_again]_vars

\* snipByTag(d, options) for the data d of a success of snipByTag.
snipByTag_again ==
    /\ fn = "snipByTag"
    /\ CallAgain(result.data, "tag")

\* The tag engine, called on a text and then on the data it extracted.
SpecTagAgain == InitTag /\ [][NextTag \/ snipByTag_again]_vars

\* Second arguments of snipSmart that ask for the tag format with an object.
TagFormatOptions ==
    { Obj(<<[key |-> K_format, value |-> Str(C_tag)]>>),
      Obj(<<[key |-> K_format, value |-> Str(C_tag)],
            [key |-> K_caseSensitive, value |-> JsTrue]>>),
      Obj(<<[key |-> K_caseSensitive, value |-> JsTrue],
            [key |-> <<"x">>, value |-> Num(1, 0)],
            [key |-> K_format, value |-> Str(C_tag)]>>) }

\* A call snipByTag(content), the second argument left out.
InitTagDefault == InitTag /\ opt = JsUndefined

\* A caller that has the Result of snipByTag(content) calls
\* snipSmart(content, options) on the same content.
snipSmart_after ==
    /\ pc = "done"
    /\ fn = "snipByTag"
    /\ prev = NoResult
    /\ exc = NoExc
    /\ \E o \in TagFormatOptions : opt' = o
    /\ fn' = "snipSmart"
    /\ prev' = result
    /\ pc' = "call"
    /\ content' = <<>>
    /\ i' = 0
    /\ stack' = <<>>
    /\ start' = -1
    /\ end' = -1
    /\ snippetStart' = -1
    /\ caseSensitive' = FALSE
    /\ result' = NoResult
    /\ ret' = NoValue
    /\ UNCHANGED <<arg, exc>>

\* snipByTag(content), then snipSmart(content, options) for the tag format.
SpecTagFormat ==
    InitTagDefault /\ [][NextTag \/ snipSmart_after \/ snipSmart]_vars

\* The three engines, each called directly.
InitEngines == InitJson0 \/ InitJson \/ InitTag
NextEngines == NextJson0 \/ NextJson \/ NextTag
SpecEngines == InitEngines /\ [][NextEngines]_vars

-----------------------------------------------------------------------------
(* Properties of the dispatcher and the strict wrapper (Spec).             *)

Statuses == {"success", "check", "fail"}

\* C1: snipSmart never throws: every finished call of snipSmart, whatever
\* the content (string or not) and the second argument, has returned a
\* Result with one of the three statuses, and no exception has escaped.
C1_NeverThrows ==
    (fn = "snipSmart" /\ pc = "done") =>
        /\ exc = NoExc
        /\ ret = result
        /\ result.status \in Statuses

\* C2: snipSmartOrThrow returns the data of snipSmart's Result exactly when
\* its status is "success"; for a Result with status "check" or "fail" it
\* throws a SnipSmartError whose message is the Result's comments and whose
\* result field is the whole Result.
C2_StrictWrapper ==
    (fn = "snipSmartOrThrow" /\ pc = "done" /\ result.status \in Statuses) =>
        IF result.status = "success"
        THEN exc = NoExc /\ ret = result.data
        ELSE /\ ret = NoValue
             /\ exc.name = "SnipSmartError"
             /\ exc.message = result.comments
             /\ exc.result = result

\* A JSON Check whose data the repair has populated is thrown all the same.
C2_Witness ==
    /\ fn = "snipSmartOrThrow"
    /\ pc = "done"
    /\ result.status = "check"
    /\ result.data # JsNull
    /\ exc.name = "SnipSmartError"
    /\ exc.result = result

\* C3: for every content and every format other than "json" and "tag",
\* snipSmart returns status "fail", the comments "Invalid format '<format>'.
\* Expected 'json' or 'tag'.", data null and raw the content argument as it
\* was given, and no step of either engine is taken.  (A format that has no
\* text has no such comments: the call ends without a Result.)
C3_InvalidFormat ==
    Format(opt) \notin {Str(C_json), Str(C_tag)} =>
        /\ pc \in {"call", "strict", "done"}
        /\ pc # "call" =>
             /\ result.status = "fail"
             /\ result.comments = <<"Invalid format '">> \o JsString(Format(opt))
                                    \o <<"'. Expected 'json' or 'tag'.">>
             /\ result.data = JsNull
             /\ result.raw = arg
             /\ content = <<>> /\ i = 0 /\ stack = <<>>

-----------------------------------------------------------------------------
(* Properties of the engines.                                              *)

Populated(v) == v # JsNull

\* C4: every Result an engine returns satisfies the field-presence
\* invariant: data and raw are never both populated; "success" implies data
\* populated and raw null; "fail" implies data null; "check" implies exactly
\* one of data and raw populated.
C4_FieldPresence ==
    (pc = "done" /\ exc = NoExc) =>
        /\ result.status \in Statuses
        /\ ~(Populated(result.data) /\ Populated(result.raw))
        /\ result.status = "success" =>
             Populated(result.data) /\ result.raw = JsNull
        /\ result.status = "fail" => result.data = JsNull
        /\ result.status = "check" =>
             Populated(result.data) # Populated(result.raw)

\* The repair of part_000 decoded: a Check with data and without raw.
C4_Witness ==
    /\ fn = "snipJson0"
    /\ pc = "done"
    /\ result.status = "check"
    /\ Populated(result.data)
    /\ result.raw = JsNull

\* C5: single repair.  When the structural scan of part_000 is at the end of
\* the text with exactly one delimiter open, the step appends the one closer
\* paired with it to the text from the start index on and decodes that: if
\* it decodes, the Result is "check" with data the decoded value and raw
\* null; if not, "fail" with data null and raw the repaired candidate.
C5_SingleRepair ==
    [][(pc = "json0_scan" /\ i >= Len(content) /\ Len(stack) = 1) =>
         LET closer   == IF stack[1] = "{" THEN "}" ELSE "]"
             repaired == sliceFrom(content, start) \o <<closer>>
             decoded  == JSON_parse(repaired)
         IN  /\ pc' = "done"
             /\ IF ~decoded.threw
                THEN /\ result'.status = "check"
                     /\ result'.data = decoded.value
                     /\ result'.raw = JsNull
                ELSE /\ result'.status = "fail"
                     /\ result'.data = JsNull
                     /\ result'.raw = Str(repaired)]_vars

\* An array left open was closed with "]" and decoded.
C5_Witness ==
    /\ fn = "snipJson0"
    /\ pc = "done"
    /\ At(content, start) = "["
    /\ result.comments = <<"One missing closing bracket auto-added. Please verify.">>
    /\ result.status = "check"
    /\ result.data.t = "array"

\* Text that holds no bracket, no quote, no "+", no backslash and no backtick.
IsProse(s) ==
    \A k \in 1..Len(s) :
        s[k] \notin OPENING \cup CLOSING \cup Quotes \cup {"+", "\\", Backtick}

\* C6: for a well-formed JSON object or array text J, leading text P and
\* trailing text S, the JSON engine of part_000 applied to P + J + S returns
\* "success" with data the decoded value of J.  Stated here for the splits
\* whose P and S are prose only.
C6_JsonAmidProse ==
    (fn = "snipJson0" /\ pc = "done" /\ typeof(arg) = "string") =>
        \A a \in 0..Len(arg.chars) : \A b \in a..Len(arg.chars) :
            ( /\ IsProse(slice(arg.chars, 0, a))
              /\ IsProse(sliceFrom(arg.chars, b))
              /\ At(arg.chars, a) \in OPENING
              /\ At(arg.chars, b - 1) \in CLOSING
              /\ ~JSON_parse(slice(arg.chars, a, b)).threw )
            => /\ result.status = "success"
               /\ result.data = JSON_parse(slice(arg.chars, a, b)).value

\* The tag that starts at the "<" at index k of s: an opening tag
\* "<name ...>", an empty-element tag "<name .../>" or a closing tag
\* "</name>", with its name and the index after its ">"; kind "none"
\* when the text there has none of these forms.
TagAt(s, k) ==
    LET closing   == At(s, k + 1) = "/"
        nameStart == IF closing THEN k + 2 ELSE k + 1
        nameEnd   == CHOOSE e \in nameStart..Len(s) :
                        /\ \A j \in nameStart..(e - 1) : At(s, j) \in NameChars
                        /\ At(s, e) \notin NameChars
        gts       == {j \in nameEnd..(Len(s) - 1) : At(s, j) = ">"}
        gt        == CHOOSE j \in gts : \A h \in gts : j <= h
    IN  IF nameEnd = nameStart \/ gts = {} THEN [kind |-> "none"]
        ELSE IF \E j \in nameEnd..(gt - 1) : At(s, j) = "<" THEN [kind |-> "none"]
        ELSE IF closing
        THEN IF \A j \in nameEnd..(gt - 1) : At(s, j) \in WhiteSpace
             THEN [kind |-> "close", name |-> slice(s, nameStart, nameEnd),
                   end |-> gt + 1]
             ELSE [kind |-> "none"]
        ELSE [kind |-> IF gt > nameEnd /\ At(s, gt - 1) = "/" THEN "empty" ELSE "open",
              name |-> slice(s, nameStart, nameEnd), end |-> gt + 1]

\* The index after the balanced element that is being read at index k of s
\* with the names in open still to close, or -1 when the text from k on does
\* not complete one: every opening tag is closed by a closing tag of the
\* same name, in nested order; text and empty-element tags may stand inside.
RECURSIVE ElementEnd(_, _, _)
ElementEnd(s, k, open) ==
    IF k >= Len(s) THEN -1
    ELSE IF At(s, k) # "<"
    THEN IF open = <<>> THEN -1 ELSE ElementEnd(s, k + 1, open)
    ELSE LET tg == TagAt(s, k)
         IN  IF tg.kind = "open" THEN ElementEnd(s, tg.end, Append(open, tg.name))
             ELSE IF tg.kind = "empty"
             THEN IF open = <<>> THEN -1 ELSE ElementEnd(s, tg.end, open)
             ELSE IF tg.kind = "close"
             THEN IF open = <<>> \/ open[Len(open)] # tg.name THEN -1
                  ELSE IF Len(open) = 1 THEN tg.end
                  ELSE ElementEnd(s, tg.end, SubSeq(open, 1, Len(open) - 1))
             ELSE -1

\* C7: for an input made of prose (text without "<"), then a balanced
\* element, then any text, the tag engine returns "success" with raw null
\* and data exactly the element's text, from its first "<" to the ">" of its
\* last closing tag, and the scan has stopped right after that ">".
C7_BalancedElement ==
    (fn = "snipByTag" /\ pc = "done" /\ typeof(arg) = "string") =>
        LET a == indexOf(arg.chars, <<"<">>)
            b == ElementEnd(arg.chars, a, <<>>)
        IN  (a >= 0 /\ b >= 0) =>
                /\ result.status = "success"
                /\ result.raw = JsNull
                /\ result.data = Str(slice(arg.chars, a, b))
                /\ i = b

\* An element with prose before it and text after it.
C7_Witness ==
    /\ fn = "snipByTag"
    /\ pc = "done"
    /\ typeof(arg) = "string"
    /\ indexOf(arg.chars, <<"<">>) > 0
    /\ ElementEnd(arg.chars, indexOf(arg.chars, <<"<">>), <<>>) \in 1..(Len(arg.chars) - 1)
    /\ result.status = "success"
    /\ i < Len(content)

\* C8: bracket mismatch.  When the structural scan of a JSON engine meets a
\* closing delimiter that does not pair with the delimiter on top of the
\* stack, the step ends the call, at that character, with status "fail", a
\* bracket-mismatch comment, data null and raw the text from the start index
\* up to and including that character.
C8_BracketMismatch ==
    [][( /\ pc \in {"json0_scan", "json_scan"}
         /\ i < Len(content)
         /\ At(content, i) \in CLOSING
         /\ ~( \/ Top(stack) = "{" /\ At(content, i) = "}"
               \/ Top(stack) = "[" /\ At(content, i) = "]" ) )
       => /\ pc' = "done"
          /\ i' = i
          /\ result'.status = "fail"
          /\ result'.comments \in {<<"Bracket mismatch detected.">>,
                                   <<"Bracket mismatch">>}
          /\ result'.data = JsNull
          /\ result'.raw = Str(slice(content, start, i + 1))]_vars

\* A mismatch of part_000 with text left behind the mismatching character.
C8_Witness ==
    /\ fn = "snipJson0"
    /\ pc = "done"
    /\ result.comments = <<"Bracket mismatch detected.">>
    /\ i + 1 < Len(content)
    /\ result.raw = Str(slice(content, start, i + 1))

\* C9: unclosed structure.  When the tag engine is at the end of the input
\* with a non-empty stack, the step returns status "fail", data null,
\* comments naming the tag on top of the stack, and raw the text from the
\* first "<" of the input to its end.
C9_UnclosedTag ==
    [][(pc = "tag_scan" /\ i >= Len(content) /\ stack # <<>>) =>
          /\ pc' = "done"
          /\ result'.status = "fail"
          /\ result'.data = JsNull
          /\ result'.comments = <<"Unclosed tag <">> \o stack[Len(stack)] \o <<">.">>
          /\ result'.raw = Str(sliceFrom(content, indexOf(content, <<"<">>)))]_vars

\* Two tags were open; the comment names the inner one.
C9_Witness ==
    /\ fn = "snipByTag"
    /\ pc = "done"
    /\ result.status = "fail"
    /\ result.comments # <<>>
    /\ result.comments[1] = "Unclosed tag <"
    /\ stack # <<>>
    /\ result.comments # <<"Unclosed tag <">> \o stack[1] \o <<">.">>

NoDelimiter(s) == \A k \in 1..Len(s) : s[k] \notin {"{", "[", "<"}

\* What the two engines answer when they find nothing to extract.
NothingFound ==
    /\ fn = "snipJson0" =>
          result = Result("fail", <<"No JSON structure found.">>, JsNull, JsNull)
    /\ fn = "snipByTag" =>
          result = Result("fail", <<"No tags found.">>, JsNull, JsNull)

\* C10 as stated: for every string input that holds none of "{", "[" and
\* "<", the JSON engine fails with "No JSON structure found." and the tag
\* engine fails with "No tags found.", both with data null and raw null.
C10_NothingFound_AnyString ==
    (pc = "done" /\ typeof(arg) = "string" /\ NoDelimiter(arg.chars))
        => NothingFound

\* C10, for non-empty inputs: for every non-empty string input that holds
\* none of "{", "[" and "<", the JSON engine fails with "No JSON structure
\* found." and the tag engine fails with "No tags found.", both with data
\* null and raw null.
C10_NothingFound ==
    (pc = "done" /\ typeof(arg) = "string" /\ arg.chars # <<>>
                 /\ NoDelimiter(arg.chars))
        => NothingFound

\* A non-empty text without delimiters went through the JSON engine.
C10_Witness ==
    /\ fn = "snipJson0"
    /\ pc = "done"
    /\ typeof(arg) = "string" /\ arg.chars # <<>>
    /\ NoDelimiter(arg.chars)
    /\ result.comments = <<"No JSON structure found.">>

-----------------------------------------------------------------------------
(* Properties of an engine applied to its own output.                      *)

\* C11: tag engine idempotence.  When the tag engine has returned "success"
\* with data d and is applied to d with the same options, it returns
\* "success" with data equal to d.
C11_TagIdempotence ==
    (fn = "snipByTag" /\ pc = "done" /\ prev.status = "success") =>
        /\ arg = prev.data
        /\ exc = NoExc
        /\ result.status = "success"
        /\ result.data = prev.data

\* The second call ended, on an element with an element nested in it.
C11_Witness ==
    /\ fn = "snipByTag"
    /\ pc = "done"
    /\ prev.status = "success"
    /\ result.data = prev.data
    /\ Len(arg.chars) > 10

\* C12: JSON engine idempotence.  When the JSON engine of part_000 has
\* returned "success" with data v and is applied, sanitizing included, to
\* the JSON text of v, it returns "success" with data equal to v.
C12_JsonIdempotence ==
    (fn = "snipJson0" /\ pc = "done" /\ prev.status = "success") =>
        /\ result.status = "success"
        /\ result.data = prev.data

-----------------------------------------------------------------------------
(* Properties of the structural scan of the JSON engines.                  *)

\* C13: repair bound.  When the structural scan of a JSON engine is at the
\* end of the text with two or more delimiters open, the step appends
\* nothing and decodes nothing: it returns status "fail", comments
\* "Unbalanced JSON structure.", data null and raw the text from the start
\* index to the end of the text.
C13_RepairBound ==
    [][(pc \in {"json0_scan", "json_scan"} /\ i >= Len(content) /\ Len(stack) >= 2)
       => /\ pc' = "done"
          /\ result' = Result("fail", <<"Unbalanced JSON structure.">>, JsNull,
                              Str(sliceFrom(content, start)))]_vars

\* Whether closer char closes the delimiter on top of stack st.
Closes(st, char) ==
    \/ Top(st) = "{" /\ char = "}"
    \/ Top(st) = "[" /\ char = "]"

\* The Result the decoder's verdict on a balanced candidate calls for.
Decoded(r, candidate) ==
    IF JSON_parse(candidate).threw
    THEN r.status = "check" /\ r.data = JsNull /\ r.raw = Str(candidate)
    ELSE /\ r.status = "success"
         /\ r.data = JSON_parse(candidate).value
         /\ r.raw = JsNull

\* C14: first balanced span wins.  In the structural scan of a JSON engine,
\* the step at the first index e that empties the stack ends the scan: no
\* character after e is examined, the candidate decoded next is exactly the
\* text from the start index through e, and the Result is the decoder's
\* verdict on that candidate, whatever follows e.
C14_FirstBalancedSpan ==
    [][ /\ ( /\ pc \in {"json0_scan", "json_scan"}
             /\ i < Len(content)
             /\ At(content, i) \in CLOSING
             /\ Len(stack) = 1
             /\ Closes(stack, At(content, i)) )
           => /\ ~(pc' \in {"json0_scan", "json_scan"} /\ i' < Len(content'))
              /\ end' = i
              /\ start' = start /\ content' = content
        /\ ( \/ pc = "json0_final"
             \/ pc = "json_scan" /\ i >= Len(content) /\ stack = <<>> )
           => Decoded(result', slice(content, start, end + 1)) ]_vars

\* Whether text t holds the text m.
Contains(t, m) == \E k \in 0..Len(t) : OccursAt(t, m, k)

\* C15: balanced but undecodable.  When the structural scan of a JSON engine
\* has found a bracket-balanced candidate and the decoder rejects it, the
\* Result is status "check", comments that hold the decoder's error
\* message, data null and raw the candidate; when the decoder accepts it,
\* status "success", data the decoded value and raw null.
C15_BalancedCandidate ==
    [][( \/ pc = "json0_final"
         \/ pc = "json_scan" /\ i >= Len(content) /\ stack = <<>> )
       => /\ pc' = "done"
          /\ IF JSON_parse(slice(content, start, end + 1)).threw
             THEN /\ result'.status = "check"
                  /\ Contains(result'.comments,
                              JSON_parse(slice(content, start, end + 1)).message)
                  /\ result'.data = JsNull
                  /\ result'.raw = Str(slice(content, start, end + 1))
             ELSE /\ result'.status = "success"
                  /\ result'.data = JSON_parse(slice(content, start, end + 1)).value
                  /\ result'.raw = JsNull]_vars

\* A balanced candidate of part_000 with a trailing separator was rejected.
C15_Witness ==
    /\ fn = "snipJson0"
    /\ pc = "done"
    /\ end > start
    /\ At(content, end - 1) = ","
    /\ result.status = "check"
    /\ result.raw = Str(slice(content, start, end + 1))

-----------------------------------------------------------------------------
(* Properties of the tag engine's handling of one tag.                     *)

\* The longest run of word, colon and hyphen characters of s from index k.
NameAt(s, k) ==
    slice(s, k, CHOOSE e \in k..Max(k, Len(s)) :
                    /\ \A j \in k..(e - 1) : At(s, j) \in NameChars
                    /\ At(s, e) \notin NameChars)

\* A name as the engine compares it under the option in force.
Folded(name) == IF caseSensitive THEN name ELSE toLowerCase(name)

\* The scan is at the "<" of a closing tag with a name.
AtClosingTag ==
    /\ pc = "tag_scan"
    /\ i < Len(content)
    /\ At(content, i) = "<"
    /\ At(content, i + 1) = "/"
    /\ NameAt(content, i + 2) # <<>>

\* C16: mismatch.  On every closing tag the top of the stack is popped and
\* compared with the folded closing name; if they differ, or the stack was
\* empty, the step ends the call with status "fail", data null, comments
\* naming the expected and the found tag, and raw the text from the snippet
\* start to the index the scan has reached.
C16_MismatchedClosingTag ==
    [][AtClosingTag =>
         /\ stack' = Pop(stack)
         /\ (stack = <<>> \/ stack[Len(stack)] # Folded(NameAt(content, i + 2)))
            => /\ pc' = "done"
               /\ i' > i + 2
               /\ result'.status = "fail"
               /\ result'.data = JsNull
               /\ result'.comments =
                     <<"Mismatched closing tag: expected </">>
                       \o (IF stack = <<>> THEN UndefinedChars ELSE stack[Len(stack)])
                       \o <<"> but found </">>
                       \o Folded(NameAt(content, i + 2)) \o <<">.">>
               /\ result'.raw =
                     Str(slice(content, indexOf(content, <<"<">>), i'))]_vars

\* An open tag was closed by a tag of another name, with text behind it.
C16_Witness ==
    /\ fn = "snipByTag"
    /\ pc = "done"
    /\ result.status = "fail"
    /\ result.comments # <<>>
    /\ result.comments[1] = "Mismatched closing tag: expected </"
    /\ result.comments[2] # "u"
    /\ i < Len(content)

\* The index after the "<" at index k of s and the "/" that may follow it.
AfterLt(s, k) == IF At(s, k + 1) = "/" THEN k + 2 ELSE k + 1

\* C17: invalid name.  The snippet start is the first "<" of the input and
\* is never reset, and a "<" the scan reaches that is not followed, after
\* an optional "/", by a word, colon or hyphen character ends the call with
\* status "fail", comments "Invalid tag name.", data null and raw the text
\* from the snippet start up to where the name should begin, whatever
\* follows.
C17_InvalidTagName ==
    [][ /\ snippetStart # -1 => snippetStart' = snippetStart
        /\ (pc = "tag_scan" /\ i < Len(content) /\ At(content, i) = "<")
           => /\ snippetStart' = indexOf(content, <<"<">>)
              /\ NameAt(content, AfterLt(content, i)) = <<>>
                 => /\ pc' = "done"
                    /\ result' = Result("fail", <<"Invalid tag name.">>, JsNull,
                                        Str(slice(content, indexOf(content, <<"<">>),
                                                  AfterLt(content, i)))) ]_vars

\* A "<" without a name was met while a tag was open, with text behind it.
C17_Witness ==
    /\ fn = "snipByTag"
    /\ pc = "done"
    /\ result.comments = <<"Invalid tag name.">>
    /\ stack # <<>>
    /\ i < Len(content)
    /\ snippetStart < i - 1

\* The index of the first "<" of s at or after index k, or -1.
NextLt(s, k) ==
    IF indexOf(sliceFrom(s, k), <<"<">>) = -1 THEN -1
    ELSE k + indexOf(sliceFrom(s, k), <<"<">>)

\* The first tag of s is an opening tag and the next tag is a closing tag
\* whose name differs from its name in letter case only.
CasePair(s) ==
    /\ NextLt(s, 0) >= 0
    /\ TagAt(s, NextLt(s, 0)).kind = "open"
    /\ NextLt(s, TagAt(s, NextLt(s, 0)).end) >= 0
    /\ LET t1 == TagAt(s, NextLt(s, 0))
           t2 == TagAt(s, NextLt(s, t1.end))
       IN  /\ t2.kind = "close"
           /\ t1.name # t2.name
           /\ toLowerCase(t1.name) = toLowerCase(t2.name)

\* The caseSensitive option was given as true.
CaseSensitiveCall ==
    opt.t = "object" /\ Get(opt, K_caseSensitive) = JsTrue

\* C18: case folding.  For an opening tag and a closing tag whose names
\* differ in letter case only: without the caseSensitive option the two
\* match and the element is returned with status "success"; with
\* caseSensitive true the pair is a mismatch and the status is "fail".
C18_CaseFolding ==
    (fn = "snipByTag" /\ pc = "done" /\ typeof(arg) = "string" /\ CasePair(arg.chars))
    => LET t1 == TagAt(arg.chars, NextLt(arg.chars, 0))
           t2 == TagAt(arg.chars, NextLt(arg.chars, t1.end))
       IN  IF CaseSensitiveCall
           THEN /\ result.status = "fail"
                /\ result.data = JsNull
                /\ result.comments =
                      <<"Mismatched closing tag: expected </">> \o t1.name
                        \o <<"> but found </">> \o t2.name \o <<">.">>
           ELSE /\ result.status = "success"
                /\ result.data = Str(slice(arg.chars, NextLt(arg.chars, 0), t2.end))

\* Such a pair was read with caseSensitive true.
C18_Witness ==
    /\ fn = "snipByTag"
    /\ pc = "done"
    /\ typeof(arg) = "string"
    /\ CasePair(arg.chars)
    /\ CaseSensitiveCall
    /\ result.status = "fail"

\* C19: self-closing tags.  A tag ended by "/>" is not pushed and leaves
\* the stack as it was; when it is the first tag of the input the call ends
\* with status "success" and data exactly the text of that tag, from its
\* "<" through its "/>", and nothing after it.
C19_SelfClosingTag ==
    [][( /\ pc = "tag_scan"
         /\ i < Len(content)
         /\ At(content, i) = "<"
         /\ TagAt(content, i).kind = "empty" )
       => /\ stack' = stack
          /\ snippetStart = -1
             => /\ pc' = "done"
                /\ result'.status = "success"
                /\ result'.raw = JsNull
                /\ result'.data =
                      Str(slice(content, i, TagAt(content, i).end))]_vars

\* C20: once a snippet start is recorded, the stack is non-empty wherever
\* the scan of the tag engine goes on after a tag, so the end of the input
\* is never reached with a snippet start and an empty stack: no call ends
\* with "Incomplete tag structure.", and a call that ends at the end of
\* the input ends with "Unclosed tag" or with "No tags found.".
C20_NoIncompleteStructure ==
    /\ []((pc = "tag_scan" /\ snippetStart # -1) => stack # <<>>)
    /\ [](result.comments # <<"Incomplete tag structure.">>)
    /\ [][(pc = "tag_scan" /\ i >= Len(content))
          => /\ pc' = "done"
             /\ result'.status = "fail"
             /\ \/ result'.comments = <<"No tags found.">>
                \/ result'.comments[1] = "Unclosed tag <"]_vars

\* The scan is at the end of the input with a snippet start recorded.
C20_Witness ==
    /\ fn = "snipByTag"
    /\ pc = "tag_scan"
    /\ i >= Len(content)
    /\ snippetStart # -1
    /\ Len(stack) = 1

----------------------------------------------------------------------------
\* C21: in the structural scan of the JSON engine the character at the start
\* index is an opening delimiter, and once the scan is past the start index
\* the stack is not empty and its bottom is that delimiter, so that no
\* closing delimiter is examined on an empty stack; a step that answers
\* "Bracket mismatch detected." pops a delimiter that does not pair, never
\* an empty stack; and a step that runs the one-closer repair answers for
\* the text from the start index on with the closer paired with the
\* character at the start index.
C21_StackBottom ==
    /\ [](pc = "json0_scan" =>
            /\ At(content, start) \in OPENING
            /\ i = start => stack = <<>>
            /\ i > start => /\ stack # <<>>
                            /\ stack[1] = At(content, start)
            /\ (i < Len(content) /\ At(content, i) \in CLOSING)
                  => stack # <<>>)
    /\ [][(pc = "json0_scan" /\ pc' = "done"
              /\ result'.comments = <<"Bracket mismatch detected.">>)
            => /\ stack # <<>>
               /\ PAIRS(Top(stack)) # At(content, i)]_vars
    /\ [][(pc = "json0_scan" /\ i >= Len(content) /\ Len(stack) = 1)
            => result' = Repair0(sliceFrom(content, start)
                                   \o <<PAIRS(At(content, start))>>)]_vars

\* The repair has run on a text in which a closing delimiter was examined
\* and paired before the end of the text.
C21_Witness ==
    /\ fn = "snipJson0"
    /\ pc = "done"
    /\ result.comments = <<"One missing closing bracket auto-added. Please verify.">>
    /\ \E k \in (start + 1)..(Len(content) - 1) : At(content, k) \in CLOSING

----------------------------------------------------------------------------
\* C22: snipSmart(content, options), for an options object whose format is
\* "tag" and whatever its other fields (caseSensitive: true among them),
\* returns the Result that snipByTag(content) returns with caseSensitive
\* false, and runs the tag engine with caseSensitive false.
C22_TagFormatDefaults ==
    /\ (fn = "snipSmart" /\ pc \in {"tag_scan", "done"}) => ~caseSensitive
    /\ (fn = "snipSmart" /\ pc = "done") => (exc = NoExc /\ result = prev)

\* snipSmart has returned a success for the tag format and caseSensitive:
\* true, on a text whose closing tag differs in case from its opening tag.
C22_Witness ==
    /\ fn = "snipSmart"
    /\ pc = "done"
    /\ prev # NoResult
    /\ Get(opt, K_caseSensitive) = JsTrue
    /\ result.status = "success"
    /\ result.data = Str(<<"<", "a", ">", "<", "/", "A", ">">>)

====
